---- MODULE Spec2Model ----
(***************************************************************************)
(* A model of win-security-identifier: the Sid view over raw bytes, the    *)
(* heap-owned SecurityIdentifier, the inline StackSid, the fixed-size      *)
(* ConstSid<N>, SidSizeInfo, and the text parser / formatter.              *)
(*                                                                         *)
(* Memory is modelled byte by byte.  A u8 is a number 0..255.  A u32 or a  *)
(* u64 is held as a base-256 numeral, most significant byte first (the     *)
(* model checker's integers are 32-bit signed, so 4294967295 is not an     *)
(* integer it can hold); storing a u32 in memory writes the numeral's      *)
(* bytes in little-endian order, as the target does.                       *)
(***************************************************************************)
EXTENDS Integers, Sequences, FiniteSets, TLC

VARIABLES heap, slots, res, fault, inp, out

vars == <<heap, slots, res, fault, inp, out>>

-----------------------------------------------------------------------------
(* Program constants *)

MIN_SUBAUTHORITY_COUNT == 1
MAX_SUBAUTHORITY_COUNT == 15
REVISION == 1
SID_HEAD_SIZE == 8
U32_SIZE == 4
REVISION_OFFSET == 0
COUNT_OFFSET == 1
AUTHORITY_OFFSET == 2
AUTHORITY_LEN == 6

(* Bounds of the model *)

\* input slices have every length 0..MaxSmallLen, and the lengths 15 and 16
MaxSmallLen == 1
\* byte buffers handed to the validator have every length 0..MaxBufLen
MaxBufLen == 21

\* a u8 holds a length modulo this
U8_RANGE == 256

-----------------------------------------------------------------------------
(* Sequences and numerals *)

Reverse(s) == [i \in 1..Len(s) |-> s[Len(s) + 1 - i]]

Fill(n, b) == [i \in 1..n |-> b]

Take(s, n) == SubSeq(s, 1, n)

Drop(s, n) == SubSeq(s, n + 1, Len(s))

\* mem with the bytes of src written at 0-based offset off
WriteAt(mem, off, src) ==
    SubSeq(SubSeq(mem, 1, off) \o src \o SubSeq(mem, off + Len(src) + 1, Len(mem)),
           1, Len(mem))

\* the u32 numeral of a small number
U32(n) == <<0, (n \div 65536) % 256, (n \div 256) % 256, n % 256>>

\* u32::to_le_bytes / from_le_bytes on a numeral
\* a faulty store that writes the most significant byte first
U32ToBE(v) == v

U32ToLE(v) == Reverse(v)
LEToU32(b) == Reverse(b)

RECURSIVE EncodeSubs(_)
EncodeSubs(subs) ==
    IF subs = <<>> THEN <<>>
    ELSE U32ToLE(Head(subs)) \o EncodeSubs(Tail(subs))

-----------------------------------------------------------------------------
(* utils.rs, sid_size_info.rs *)

\* a faulty guard that forgets the lower bound
guard_without_lower_bound(size) == size <= MAX_SUBAUTHORITY_COUNT

sub_authority_size_guard(size) ==
    MIN_SUBAUTHORITY_COUNT <= size /\ size <= MAX_SUBAUTHORITY_COUNT

None == [some |-> FALSE]
Some(v) == [some |-> TRUE, val |-> v]

\* a faulty from_count whose upper bound is off by one
from_count_up_to_16(sub_authority_count) ==
    IF MIN_SUBAUTHORITY_COUNT <= sub_authority_count
       /\ sub_authority_count <= MAX_SUBAUTHORITY_COUNT + 1
    THEN [some |-> TRUE, val |-> [sub_authority_count |-> sub_authority_count]]
    ELSE [some |-> FALSE]

\* SidSizeInfo::from_count
from_count(sub_authority_count) ==
    IF sub_authority_size_guard(sub_authority_count)
    THEN Some([sub_authority_count |-> sub_authority_count])
    ELSE None

\* Layout::new::<SidHead>().extend(Layout::array::<u32>(count)).pad_to_align()
PadTo(n, align) == ((n + align - 1) \div align) * align

\* SidSizeInfo::get_sub_authority_count
get_sub_authority_count(info) == info.sub_authority_count

\* a faulty layout padded to 8 bytes
get_layout_padded_to_8(info) ==
    [size  |-> PadTo(SID_HEAD_SIZE + info.sub_authority_count * U32_SIZE, 2 * U32_SIZE),
     align |-> U32_SIZE]

get_layout(info) ==
    [size  |-> PadTo(PadTo(SID_HEAD_SIZE, U32_SIZE)
                        + info.sub_authority_count * U32_SIZE, U32_SIZE),
     align |-> U32_SIZE]

MIN_SIZE == get_layout([sub_authority_count |-> MIN_SUBAUTHORITY_COUNT]).size
MAX_SIZE == get_layout([sub_authority_count |-> MAX_SUBAUTHORITY_COUNT]).size

\* the from_full_size of security_identifier/sid_size_info.rs, a file outside
\* the module tree: two assertions, then the quotient cast to u8
from_full_size_asserting(size) ==
    IF size < SID_HEAD_SIZE \/ (size - SID_HEAD_SIZE) % U32_SIZE # 0
    THEN [some |-> FALSE, panicked |-> TRUE]
    ELSE [some |-> TRUE,
          val |-> [sub_authority_count |->
                      ((size - SID_HEAD_SIZE) \div U32_SIZE) % 256]]

\* SidSizeInfo::from_full_size
from_full_size(size) ==
    IF MAX_SIZE < size \/ size < MIN_SIZE THEN None
    ELSE LET remaining == size - SID_HEAD_SIZE IN
         IF remaining % U32_SIZE # 0 THEN None
         ELSE from_count((remaining \div U32_SIZE) % 256)

\* a faulty validator that indexes the header without the minimum-size check
validate_without_min_size(buf) ==
    IF Len(buf) <= REVISION_OFFSET THEN [ok |-> FALSE, reads |-> {REVISION_OFFSET}]
    ELSE IF buf[REVISION_OFFSET + 1] # REVISION
         THEN [ok |-> FALSE, reads |-> {REVISION_OFFSET}]
    ELSE LET rd == {REVISION_OFFSET, COUNT_OFFSET} IN
         IF Len(buf) <= COUNT_OFFSET THEN [ok |-> FALSE, reads |-> rd]
         ELSE IF ~sub_authority_size_guard(buf[COUNT_OFFSET + 1])
              THEN [ok |-> FALSE, reads |-> rd]
         ELSE IF Len(buf) # get_layout(from_count(buf[COUNT_OFFSET + 1]).val).size
              THEN [ok |-> FALSE, reads |-> rd]
         ELSE [ok |-> TRUE, reads |-> rd]

\* validate_sid_bytes_unaligned: the outcome and the 0-based indices it reads
validate_sid_bytes_unaligned(buf) ==
    IF Len(buf) < MIN_SIZE THEN [ok |-> FALSE, reads |-> {}]
    ELSE IF buf[REVISION_OFFSET + 1] # REVISION
         THEN [ok |-> FALSE, reads |-> {REVISION_OFFSET}]
    ELSE LET count == buf[COUNT_OFFSET + 1]
             rd == {REVISION_OFFSET, COUNT_OFFSET} IN
         IF ~sub_authority_size_guard(count) THEN [ok |-> FALSE, reads |-> rd]
         ELSE IF Len(buf) # get_layout(from_count(count).val).size
              THEN [ok |-> FALSE, reads |-> rd]
         ELSE [ok |-> TRUE, reads |-> rd]

-----------------------------------------------------------------------------
(* sid.rs: the view.  A &Sid is a fat pointer: the bytes it points at and  *)
(* the slice-length metadata of the trailing [u32].                        *)

revision(sid) == sid.mem[REVISION_OFFSET + 1]

sub_authority_count(sid) == sid.mem[COUNT_OFFSET + 1]

identifier_authority(sid) ==
    SubSeq(sid.mem, AUTHORITY_OFFSET + 1, AUTHORITY_OFFSET + AUTHORITY_LEN)

\* Sid::get_current_min_layout (unreachable!() on a count out of range is
\* rendered as the zero layout)
get_current_min_layout(sid) ==
    LET info == from_count(sub_authority_count(sid)) IN
    IF info.some THEN get_layout(info.val) ELSE [size |-> 0, align |-> U32_SIZE]

\* a faulty accessor that spans all the bytes behind the view
as_binary_of_storage(sid) == sid.mem

\* Sid::as_binary: slice::from_raw_parts(self as *const u8, layout.size())
as_binary(sid) == Take(sid.mem, get_current_min_layout(sid).size)

\* a faulty accessor that slices to the capacity of the storage
get_sub_authorities_to_capacity(sid) ==
    [i \in 1..((Len(sid.mem) - SID_HEAD_SIZE) \div U32_SIZE) |->
        Reverse(SubSeq(sid.mem, SID_HEAD_SIZE + U32_SIZE * (i - 1) + 1,
                                SID_HEAD_SIZE + U32_SIZE * i))]

\* Sid::get_sub_authorities: from_raw_parts(sub_authority.as_ptr(), count)
get_sub_authorities(sid) ==
    [i \in 1..sub_authority_count(sid) |->
        LEToU32(SubSeq(sid.mem, SID_HEAD_SIZE + U32_SIZE * (i - 1) + 1,
                                SID_HEAD_SIZE + U32_SIZE * i))]

\* a faulty comparison of all the bytes behind the two views
SidEqOfStorage(a, b) == a.mem = b.mem

\* impl PartialEq for Sid
SidEq(a, b) == as_binary(a) = as_binary(b)

\* impl Hash for Sid: what is fed to the Hasher, in order
SidHash(sid) ==
    << <<"u8", revision(sid)>>,
       <<"u8", sub_authority_count(sid)>>,
       <<"array", AUTHORITY_LEN, identifier_authority(sid)>>,
       <<"slice", EncodeSubs(get_sub_authorities(sid))>> >>

\* size_of_val(&Sid): the header and metadata-many u32
size_of_val(sid) == PadTo(SID_HEAD_SIZE + sid.meta * U32_SIZE, U32_SIZE)

\* Sid::from_bytes followed by from_raw_internal: the metadata is read from
\* the count byte
from_bytes(value) ==
    IF validate_sid_bytes_unaligned(value).ok
    THEN [ok |-> TRUE, sid |-> [mem |-> value, meta |-> value[COUNT_OFFSET + 1]]]
    ELSE [ok |-> FALSE]

-----------------------------------------------------------------------------
(* Text.  A string is a sequence of one-character strings.                 *)

DigitChars == <<"0", "1", "2", "3", "4", "5", "6", "7", "8", "9">>
HexChars == DigitChars \o <<"A", "B", "C", "D", "E", "F">>

DigitSet == {"0", "1", "2", "3", "4", "5", "6", "7", "8", "9"}
DigitOf == [c \in DigitSet |-> (CHOOSE i \in 1..Len(DigitChars) : DigitChars[i] = c) - 1]

IsDigit(c) == c \in DigitSet
DigitVal(c) == DigitOf[c]

IsZero(num) == \A i \in 1..Len(num) : num[i] = 0

\* long division of a numeral by 10, most significant byte first
RECURSIVE DivMod10(_, _, _)
DivMod10(num, rem, q) ==
    IF num = <<>> THEN [q |-> q, r |-> rem]
    ELSE DivMod10(Tail(num), (rem * 256 + Head(num)) % 10,
                  Append(q, (rem * 256 + Head(num)) \div 10))

RECURSIVE DecimalDigits(_)
DecimalDigits(num) ==
    IF IsZero(num) THEN <<>>
    ELSE LET d == DivMod10(num, 0, <<>>)
         IN DecimalDigits(d.q) \o <<DigitChars[d.r + 1]>>

\* {} of an unsigned integer
FormatDecimal(num) == IF IsZero(num) THEN <<"0">> ELSE DecimalDigits(num)

RECURSIVE StripZeros(_)
StripZeros(ds) ==
    IF Len(ds) > 1 /\ Head(ds) = "0" THEN StripZeros(Tail(ds)) ELSE ds

RECURSIVE Nibbles(_)
Nibbles(num) ==
    IF num = <<>> THEN <<>>
    ELSE <<HexChars[(Head(num) \div 16) + 1], HexChars[(Head(num) % 16) + 1]>>
         \o Nibbles(Tail(num))

\* {:X} of an unsigned integer
FormatHexUpper(num) == StripZeros(Nibbles(num))

\* num * 10 + d on a numeral given least significant byte first; the carry
\* out of the top byte is the overflow of checked_mul / checked_add
RECURSIVE MulAdd10LE(_, _, _)
MulAdd10LE(le, carry, val) ==
    IF le = <<>> THEN [val |-> val, carry |-> carry]
    ELSE MulAdd10LE(Tail(le), (Head(le) * 10 + carry) \div 256,
                    Append(val, (Head(le) * 10 + carry) % 256))

RECURSIVE ParseDigits(_, _)
ParseDigits(ds, acc) ==
    IF ds = <<>> THEN [ok |-> TRUE, val |-> acc]
    ELSE IF ~IsDigit(Head(ds)) THEN [ok |-> FALSE]
    ELSE LET step == MulAdd10LE(Reverse(acc), DigitVal(Head(ds)), <<>>)
         IN IF step.carry # 0 THEN [ok |-> FALSE]
            ELSE ParseDigits(Tail(ds), Reverse(step.val))

\* str::parse::<uN>() for a width of `width` bytes: an optional leading '+',
\* then one or more decimal digits, no overflow
ParseUint(field, width) ==
    IF field = <<>> THEN [ok |-> FALSE]
    ELSE LET digits == IF Head(field) = "+" THEN Tail(field) ELSE field
         IN IF digits = <<>> THEN [ok |-> FALSE]
            ELSE ParseDigits(digits, Fill(width, 0))

\* str::split('-')
RECURSIVE SplitDash(_, _)
SplitDash(s, cur) ==
    IF s = <<>> THEN <<cur>>
    ELSE IF Head(s) = "-" THEN <<cur>> \o SplitDash(Tail(s), <<>>)
    ELSE SplitDash(Tail(s), Append(cur, Head(s)))

\* the loop over the remaining fields: parse::<u32>() then try_push
RECURSIVE ParseSubs(_, _)
ParseSubs(fields, acc) ==
    IF fields = <<>> THEN [ok |-> TRUE, val |-> acc]
    ELSE LET item == ParseUint(Head(fields), U32_SIZE)
         IN IF ~item.ok THEN [ok |-> FALSE]
            ELSE IF Len(acc) >= MAX_SUBAUTHORITY_COUNT THEN [ok |-> FALSE]
            ELSE ParseSubs(Tail(fields), Append(acc, item.val))

\* a faulty parser that keeps the six high bytes of the authority
SidComponents_from_str_high_bytes(s) ==
    LET s_cmp == SplitDash(s, <<>>) IN
    IF ~(s_cmp[1] \in {<<"S">>, <<"s">>}) THEN [ok |-> FALSE]
    ELSE IF Len(s_cmp) < 2 THEN [ok |-> FALSE]
    ELSE LET rev == ParseUint(s_cmp[2], 1) IN
    IF ~rev.ok THEN [ok |-> FALSE]
    ELSE IF rev.val[1] # 1 THEN [ok |-> FALSE]
    ELSE IF Len(s_cmp) < 3 THEN [ok |-> FALSE]
    ELSE LET auth == ParseUint(s_cmp[3], 8) IN
    IF ~auth.ok THEN [ok |-> FALSE]
    ELSE LET subs == ParseSubs(SubSeq(s_cmp, 4, Len(s_cmp)), <<>>) IN
    IF ~subs.ok THEN [ok |-> FALSE]
    ELSE IF Len(subs.val) < MIN_SUBAUTHORITY_COUNT THEN [ok |-> FALSE]
    ELSE [ok |-> TRUE,
          revision |-> rev.val[1],
          identifier_authority |-> Take(auth.val, 6),
          sub_authority |-> subs.val]

\* impl FromStr for SidComponents
SidComponents_from_str(s) ==
    LET s_cmp == SplitDash(s, <<>>) IN
    IF ~(s_cmp[1] \in {<<"S">>, <<"s">>}) THEN [ok |-> FALSE]
    ELSE IF Len(s_cmp) < 2 THEN [ok |-> FALSE]
    ELSE LET rev == ParseUint(s_cmp[2], 1) IN
    IF ~rev.ok THEN [ok |-> FALSE]
    ELSE IF rev.val[1] # 1 THEN [ok |-> FALSE]
    ELSE IF Len(s_cmp) < 3 THEN [ok |-> FALSE]
    ELSE LET auth == ParseUint(s_cmp[3], 8) IN
    IF ~auth.ok THEN [ok |-> FALSE]
    ELSE LET subs == ParseSubs(SubSeq(s_cmp, 4, Len(s_cmp)), <<>>) IN
    IF ~subs.ok THEN [ok |-> FALSE]
    ELSE IF Len(subs.val) < MIN_SUBAUTHORITY_COUNT THEN [ok |-> FALSE]
    ELSE [ok |-> TRUE,
          revision |-> rev.val[1],
          identifier_authority |-> Drop(auth.val, 2),
          sub_authority |-> subs.val]

RECURSIVE DisplaySubs(_)
DisplaySubs(subs) ==
    IF subs = <<>> THEN <<>>
    ELSE <<"-">> \o FormatDecimal(Head(subs)) \o DisplaySubs(Tail(subs))

\* a faulty Display that prints every authority in decimal
Display_always_decimal(sid) ==
    <<"S", "-">> \o FormatDecimal(<<revision(sid)>>)
    \o <<"-">> \o FormatDecimal(<<0, 0>> \o identifier_authority(sid))
    \o DisplaySubs(get_sub_authorities(sid))

\* impl Display for Sid
Display(sid) ==
    LET id_auth_value == <<0, 0>> \o identifier_authority(sid) IN
    <<"S", "-">> \o FormatDecimal(<<revision(sid)>>)
    \o (IF IsZero(Take(id_auth_value, 4))
        THEN <<"-">> \o FormatDecimal(id_auth_value)
        ELSE <<"-", "0", "x">> \o FormatHexUpper(id_auth_value))
    \o DisplaySubs(get_sub_authorities(sid))

-----------------------------------------------------------------------------
(* The allocator.  An address holds at most one live allocation, with the  *)
(* layout it was allocated with and its bytes.                             *)

Addrs == {1, 2}

FreeEntry == [live |-> FALSE, layout |-> [size |-> 0, align |-> U32_SIZE], mem |-> <<>>]

\* alloc::alloc(layout) at address a: uninitialised bytes, all holding g
Alloc(h, a, layout, g) ==
    [h EXCEPT ![a] = [live |-> TRUE, layout |-> layout, mem |-> Fill(layout.size, g)]]

\* alloc::dealloc(ptr, layout) is sound only on a live allocation made with
\* the same layout
DeallocOk(h, a, layout) == h[a].live /\ h[a].layout = layout

Dealloc(h, a) == [h EXCEPT ![a] = FreeEntry]

-----------------------------------------------------------------------------
(* security_identifier.rs: SecurityIdentifier { sid: NonNull<Sid>, layout } *)

NoValue == [kind |-> "none"]

\* SecurityIdentifier::uninit: allocate, build the fat pointer, set the count
uninit(h, a, g, size_info) ==
    LET layout == get_layout(size_info)
        count == size_info.sub_authority_count
        h1 == Alloc(h, a, layout, g)
    IN [heap |-> [h1 EXCEPT ![a].mem = WriteAt(@, COUNT_OFFSET, <<count>>)],
        val  |-> [kind |-> "heap", ptr |-> a, meta |-> count, layout |-> layout]]

\* SecurityIdentifier::as_sid
SecAsSid(h, v) == [mem |-> h[v.ptr].mem, meta |-> v.meta]

\* the length of the [u32] place behind a fat pointer with metadata meta
TailLen(meta) == meta

\* slice::copy_from_slice panics unless both lengths agree
CopyFromSliceOk(dstLen, srcLen) == dstLen = srcLen

\* SecurityIdentifier::new_unchecked once size_info is known
SecFill(h, a, g, size_info, rev, auth, subs) ==
    LET u == uninit(h, a, g, size_info)
        count == size_info.sub_authority_count
    IN IF ~CopyFromSliceOk(TailLen(u.val.meta), Len(subs))
       THEN [outcome |-> "panic", heap |-> h, val |-> NoValue]
       ELSE [outcome |-> "ok",
             heap |-> [u.heap EXCEPT ![a].mem =
                          WriteAt(@, 0, <<rev, count>> \o auth \o EncodeSubs(subs))],
             val |-> u.val]

\* a faulty drop that recomputes the layout for the largest identifier
DropLayoutOfMax(v) ==
    get_layout([sub_authority_count |-> MAX_SUBAUTHORITY_COUNT])

\* the layout SecurityIdentifier::drop hands to dealloc
DropLayout(v) == v.layout

\* a faulty to_owned that allocates for the largest identifier
to_owned_of_capacity(h, a, g, sid) ==
    LET u == uninit(h, a, g, from_count(MAX_SUBAUTHORITY_COUNT).val)
    IN [outcome |-> "ok",
        heap |-> [u.heap EXCEPT ![a].mem = WriteAt(@, 0, as_binary(sid))],
        val |-> [u.val EXCEPT !.meta = sub_authority_count(sid)]]

\* Sid::to_owned (impl ToOwned for Sid)
to_owned(h, a, g, sid) ==
    LET binary == as_binary(sid)
        u == uninit(h, a, g, from_count(sub_authority_count(sid)).val)
        dstLen == get_current_min_layout(SecAsSid(u.heap, u.val)).size
    IN IF ~CopyFromSliceOk(dstLen, Len(binary))
       THEN [outcome |-> "panic", heap |-> h, val |-> NoValue]
       ELSE [outcome |-> "ok",
             heap |-> [u.heap EXCEPT ![a].mem = WriteAt(@, 0, binary)],
             val |-> u.val]

\* SecurityIdentifier::clone_from: self.as_binary_mut().copy_from_slice(source.as_binary())
Sec_clone_from(h, dst, src) ==
    LET binary == as_binary(SecAsSid(h, src))
        dstLen == get_current_min_layout(SecAsSid(h, dst)).size
    IN IF ~CopyFromSliceOk(dstLen, Len(binary))
       THEN [outcome |-> "panic", heap |-> h]
       ELSE [outcome |-> "ok",
             heap |-> [h EXCEPT ![dst.ptr].mem = WriteAt(@, 0, binary)]]

\* SecurityIdentifier::clone: uninit of the source's count, then clone_from
Sec_clone(h, a, g, src) ==
    LET u == uninit(h, a, g, from_count(sub_authority_count(SecAsSid(h, src))).val)
        c == Sec_clone_from(u.heap, u.val, src)
    IN IF c.outcome = "ok"
       THEN [outcome |-> "ok", heap |-> c.heap, val |-> u.val]
       ELSE [outcome |-> "panic", heap |-> h, val |-> NoValue]

-----------------------------------------------------------------------------
(* stack_sid.rs: StackSid, 8 header bytes and 15 inline MaybeUninit<u32>   *)

STACK_SIZE == SID_HEAD_SIZE + MAX_SUBAUTHORITY_COUNT * U32_SIZE

StackVal(mem) == [kind |-> "stack", mem |-> mem]

\* StackSid::new_unchecked: an uninitialised array, the slice copied to its
\* start, revision pinned to Sid::REVISION
Stack_new_unchecked(g, auth, subs) ==
    StackVal(WriteAt(Fill(STACK_SIZE, g), 0,
                     <<REVISION, Len(subs) % 256>> \o auth \o EncodeSubs(subs)))

\* StackSid::as_sid: from_raw_parts(self, self.sub_authority_count)
StackAsSid(v) == [mem |-> v.mem, meta |-> v.mem[COUNT_OFFSET + 1]]

\* StackSid::from_bytes
Stack_from_bytes(g, bytes) ==
    IF ~validate_sid_bytes_unaligned(bytes).ok THEN [ok |-> FALSE]
    ELSE [ok |-> TRUE, val |-> StackVal(WriteAt(Fill(STACK_SIZE, g), 0, bytes))]

\* impl From<&Sid> for StackSid
Stack_from_sid(g, sid) == StackVal(WriteAt(Fill(STACK_SIZE, g), 0, as_binary(sid)))

\* a faulty clone_from that copies the whole inline structure
Stack_clone_from_whole(dst, src) == StackVal(src.mem)

\* StackSid::clone_from: the source's minimal span copied over the start
Stack_clone_from(dst, src) ==
    StackVal(WriteAt(dst.mem, 0, as_binary(StackAsSid(src))))

\* utils::debug_print(name, value, f): the struct name and the fields of the
\* view as #[derive(Debug)] on Sid lists them, the trailing array as long as
\* the view's metadata says
debug_print(name, sid) ==
    [name |-> name,
     revision |-> revision(sid),
     sub_authority_count |-> sub_authority_count(sid),
     identifier_authority |-> identifier_authority(sid),
     sub_authority |->
        [i \in 1..TailLen(sid.meta) |->
            LEToU32(SubSeq(sid.mem, SID_HEAD_SIZE + U32_SIZE * (i - 1) + 1,
                                    SID_HEAD_SIZE + U32_SIZE * i))]]

\* impl fmt::Debug for StackSid
StackDebug(v) == debug_print("StackSid", StackAsSid(v))

-----------------------------------------------------------------------------
(* const_sid.rs: ConstSid<N>, 8 header bytes and N u32                      *)

ConstVal(n, mem) == [kind |-> "const", N |-> n, mem |-> mem]

\* Layout::new::<ConstSid<N>>(): #[repr(C)] places u8, u8, [u8; 6] and
\* [u32; N] in order, each at the next multiple of its alignment, and pads
\* the size to the largest alignment
ConstSid_layout(n) ==
    LET sub_authority_offset == PadTo(AUTHORITY_OFFSET + AUTHORITY_LEN, U32_SIZE)
    IN [size |-> PadTo(sub_authority_offset + n * U32_SIZE, U32_SIZE),
        align |-> U32_SIZE]

\* ConstSid::new
Const_new(n, auth, subs) ==
    ConstVal(n, <<1, n % 256>> \o auth \o EncodeSubs(subs))

\* ConstSid::as_sid: from_raw_parts(self, N)
ConstAsSid(v) == [mem |-> v.mem, meta |-> v.N]

\* ConstSid::as_bytes: size_of::<Self>() bytes from the start
as_bytes(v) == Take(v.mem, PadTo(SID_HEAD_SIZE + v.N * U32_SIZE, U32_SIZE))

\* a faulty conversion that takes the first N sub-authorities of a longer
\* identifier
Const_try_from_prefix(n, sid) ==
    LET subs == get_sub_authorities(sid) IN
    IF Len(subs) < n THEN [ok |-> FALSE]
    ELSE [ok |-> TRUE,
          val |-> ConstVal(n, <<revision(sid), n % 256>>
                              \o identifier_authority(sid) \o EncodeSubs(Take(subs, n)))]

\* impl TryFrom<&Sid> for ConstSid<N>: the slice must have exactly N elements
Const_try_from(n, sid) ==
    LET subs == get_sub_authorities(sid) IN
    IF Len(subs) # n THEN [ok |-> FALSE]
    ELSE [ok |-> TRUE,
          val |-> ConstVal(n, <<revision(sid), n % 256>>
                              \o identifier_authority(sid) \o EncodeSubs(subs))]

\* a faulty hash that feeds the array as #[derive(Hash)] would, with its
\* length in front
ConstHashDerived(v) ==
    << <<"u8", v.mem[REVISION_OFFSET + 1]>>,
       <<"u8", v.mem[COUNT_OFFSET + 1]>>,
       <<"array", AUTHORITY_LEN,
         SubSeq(v.mem, AUTHORITY_OFFSET + 1, AUTHORITY_OFFSET + AUTHORITY_LEN)>>,
       <<"array", v.N,
         SubSeq(v.mem, SID_HEAD_SIZE + 1, SID_HEAD_SIZE + v.N * U32_SIZE)>> >>

\* impl Hash for ConstSid<N>: the struct's own fields
ConstHash(v) ==
    << <<"u8", v.mem[REVISION_OFFSET + 1]>>,
       <<"u8", v.mem[COUNT_OFFSET + 1]>>,
       <<"array", AUTHORITY_LEN,
         SubSeq(v.mem, AUTHORITY_OFFSET + 1, AUTHORITY_OFFSET + AUTHORITY_LEN)>>,
       <<"slice", SubSeq(v.mem, SID_HEAD_SIZE + 1, SID_HEAD_SIZE + v.N * U32_SIZE)>> >>

-----------------------------------------------------------------------------
(* Any owning value seen through its view *)

AsSid(h, v) ==
    CASE v.kind = "heap"  -> SecAsSid(h, v)
      [] v.kind = "stack" -> StackAsSid(v)
      [] v.kind = "const" -> ConstAsSid(v)

\* the bytes backing a value, all of them
Backing(h, v) == IF v.kind = "heap" THEN h[v.ptr].mem ELSE v.mem

\* as_sid_mut: a write of src at offset off of the value's bytes
WriteField(h, v, off, src) ==
    IF v.kind = "heap"
    THEN [heap |-> [h EXCEPT ![v.ptr].mem = WriteAt(@, off, src)], val |-> v]
    ELSE [heap |-> h, val |-> [v EXCEPT !.mem = WriteAt(@, off, src)]]

-----------------------------------------------------------------------------
(* What a client passes in *)

Slots == {"x", "y"}

NT_AUTHORITY == <<0, 0, 0, 0, 0, 5>>
\* an authority above 0xFFFFFFFF
WIDE_AUTHORITY == <<0, 1, 0, 0, 0, 0>>
Auths == {NT_AUTHORITY, WIDE_AUTHORITY}

Revs == {REVISION, REVISION + 1}

U32_MAX == <<255, 255, 255, 255>>

\* 32, 544, 1056, ...
Ramp(n) == [i \in 1..n |-> U32(32 + 512 * (i - 1))]

ValidLens == (1..MaxSmallLen) \cup {MAX_SUBAUTHORITY_COUNT}
SubLens == (0..MaxSmallLen)
           \cup {MAX_SUBAUTHORITY_COUNT, MAX_SUBAUTHORITY_COUNT + 1, U8_RANGE + 1}
SubSlices == {Ramp(n) : n \in SubLens}

\* what uninitialised memory may hold
Garbage == {0, 85}

Str(bytes) == [mem |-> bytes, meta |-> bytes[COUNT_OFFSET + 1]]

TextOf(auth, subs) ==
    Display(Str(<<REVISION, Len(subs)>> \o auth \o EncodeSubs(subs)))

MainTexts ==
    {TextOf(NT_AUTHORITY, Ramp(n)) : n \in ValidLens}
    \cup {<<"S", "-", "1", "-", "5">>,
          <<"S", "-", "2", "-", "5", "-", "3", "2">>}

-----------------------------------------------------------------------------
(* The state machine: a client holding values in the slots x and y         *)

\* SidComponents::from_str on the texts the client passes, computed once
ParsedMain == [text \in MainTexts |-> SidComponents_from_str(text)]

NoIO == [tag |-> "none"]

Result(op, kind, dst, src, outcome, allocated) ==
    [op |-> op, kind |-> kind, dst |-> dst, src |-> src, outcome |-> outcome,
     allocated |-> allocated]

Init ==
    /\ heap = [a \in Addrs |-> FreeEntry]
    /\ slots = [s \in Slots |-> NoValue]
    /\ res = Result("init", "none", "x", "x", "ok", FALSE)
    /\ fault = "none"
    /\ inp = NoIO
    /\ out = NoIO

Running == fault = "none"

Empty(d) == slots[d].kind = "none"

\* SecurityIdentifier::try_new: bool::then_some takes its argument by value,
\* so new_unchecked runs on every slice before the guard decides.  With a
\* length whose u8 truncation is not in 1..=15, from_count(..).unwrap_unchecked()
\* is undefined behaviour: the build either traps there, or goes on with the
\* truncated count.
SecTryNew(d, a, g, rev, auth, subs, trap) ==
    LET count == Len(subs) % U8_RANGE
        inRange == from_count(count).some
        r == SecFill(heap, a, g, [sub_authority_count |-> count], rev, auth, subs)
    IN
    /\ Running /\ Empty(d) /\ ~heap[a].live
    /\ IF ~inRange /\ trap
       THEN /\ fault' = "abort"
            /\ res' = Result("try_new", "heap", d, d, "abort", FALSE)
            /\ UNCHANGED <<heap, slots>>
       ELSE IF r.outcome = "panic"
       THEN /\ res' = Result("try_new", "heap", d, d, "panic", TRUE)
            /\ UNCHANGED <<heap, slots, fault>>
       ELSE IF sub_authority_size_guard(Len(subs))
       THEN /\ heap' = r.heap
            /\ slots' = [slots EXCEPT ![d] = r.val]
            /\ res' = Result("try_new", "heap", d, d, "some", TRUE)
            /\ UNCHANGED fault
       ELSE \* then_some(false): the value just built is dropped
            /\ IF DeallocOk(r.heap, r.val.ptr, DropLayout(r.val))
               THEN UNCHANGED fault ELSE fault' = "bad_dealloc"
            /\ res' = Result("try_new", "heap", d, d, "none", TRUE)
            /\ UNCHANGED <<heap, slots>>
    /\ UNCHANGED <<inp, out>>

\* impl FromStr for SecurityIdentifier
SecFromStr(d, a, g, text) ==
    LET c == ParsedMain[text] IN
    /\ Running /\ Empty(d) /\ ~heap[a].live
    /\ IF ~c.ok
       THEN /\ res' = Result("from_str", "heap", d, d, "err", FALSE)
            /\ UNCHANGED <<heap, slots>>
       ELSE LET r == SecFill(heap, a, g,
                             from_count(Len(c.sub_authority) % U8_RANGE).val,
                             c.revision, c.identifier_authority, c.sub_authority)
            IN /\ heap' = r.heap
               /\ slots' = [slots EXCEPT ![d] = r.val]
               /\ res' = Result("from_str", "heap", d, d, "ok", TRUE)
    /\ UNCHANGED <<fault, inp, out>>

\* the bytes a client takes from a value: its binary span
BytesOf(src) == as_binary(AsSid(heap, slots[src]))

\* SecurityIdentifier::from_bytes / impl TryFrom<&[u8]>
SecFromBytes(d, a, g, src) ==
    LET bytes == BytesOf(src)
        v == from_bytes(bytes) IN
    /\ Running /\ Empty(d) /\ ~Empty(src) /\ ~heap[a].live
    /\ IF ~v.ok
       THEN /\ res' = Result("from_bytes", "heap", d, src, "err", FALSE)
            /\ UNCHANGED <<heap, slots>>
       ELSE LET r == to_owned(heap, a, g, v.sid)
            IN /\ heap' = r.heap
               /\ slots' = [slots EXCEPT ![d] = r.val]
               /\ res' = Result("from_bytes", "heap", d, src, r.outcome, TRUE)
    /\ UNCHANGED <<fault, inp, out>>

\* impl Clone for SecurityIdentifier: clone
SecClone(d, a, g, src) ==
    LET r == Sec_clone(heap, a, g, slots[src]) IN
    /\ Running /\ Empty(d) /\ slots[src].kind = "heap" /\ ~heap[a].live
    /\ heap' = r.heap
    /\ slots' = [slots EXCEPT ![d] = r.val]
    /\ res' = Result("clone", "heap", d, src, r.outcome, TRUE)
    /\ UNCHANGED <<fault, inp, out>>

\* impl Clone for SecurityIdentifier: clone_from
SecCloneFrom(d, src) ==
    LET r == Sec_clone_from(heap, slots[d], slots[src]) IN
    /\ Running /\ d # src /\ slots[d].kind = "heap" /\ slots[src].kind = "heap"
    /\ heap' = r.heap
    /\ res' = Result("clone_from", "heap", d, src, r.outcome, FALSE)
    /\ UNCHANGED <<slots, fault, inp, out>>

\* Sid::to_owned on the view of any value; impl From<ConstSid<N>>
ToOwned(d, a, g, src) ==
    LET r == to_owned(heap, a, g, AsSid(heap, slots[src])) IN
    /\ Running /\ Empty(d) /\ ~Empty(src) /\ ~heap[a].live
    /\ heap' = r.heap
    /\ slots' = [slots EXCEPT ![d] = r.val]
    /\ res' = Result("to_owned", "heap", d, src, r.outcome, TRUE)
    /\ UNCHANGED <<fault, inp, out>>

\* StackSid::try_new
StackTryNew(d, g, auth, subs) ==
    /\ Running /\ Empty(d)
    /\ IF sub_authority_size_guard(Len(subs))
       THEN /\ slots' = [slots EXCEPT ![d] = Stack_new_unchecked(g, auth, subs)]
            /\ res' = Result("try_new", "stack", d, d, "some", FALSE)
       ELSE /\ res' = Result("try_new", "stack", d, d, "none", FALSE)
            /\ UNCHANGED slots
    /\ UNCHANGED <<heap, fault, inp, out>>

\* impl FromStr for StackSid
StackFromStr(d, g, text) ==
    LET c == ParsedMain[text] IN
    /\ Running /\ Empty(d)
    /\ IF ~c.ok
       THEN /\ res' = Result("from_str", "stack", d, d, "err", FALSE)
            /\ UNCHANGED slots
       ELSE /\ slots' = [slots EXCEPT ![d] =
                  Stack_new_unchecked(g, c.identifier_authority, c.sub_authority)]
            /\ res' = Result("from_str", "stack", d, d, "ok", FALSE)
    /\ UNCHANGED <<heap, fault, inp, out>>

\* StackSid::from_bytes / impl TryFrom<&[u8]>
StackFromBytes(d, g, src) ==
    LET bytes == BytesOf(src)
        r == Stack_from_bytes(g, bytes) IN
    /\ Running /\ Empty(d) /\ ~Empty(src)
    /\ IF ~r.ok
       THEN /\ res' = Result("from_bytes", "stack", d, src, "err", FALSE)
            /\ UNCHANGED slots
       ELSE /\ slots' = [slots EXCEPT ![d] = r.val]
            /\ res' = Result("from_bytes", "stack", d, src, "ok", FALSE)
    /\ UNCHANGED <<heap, fault, inp, out>>

\* impl From<&Sid> for StackSid
StackFromSid(d, g, src) ==
    /\ Running /\ Empty(d) /\ slots[src].kind \in {"heap", "const"}
    /\ slots' = [slots EXCEPT ![d] = Stack_from_sid(g, AsSid(heap, slots[src]))]
    /\ res' = Result("from_sid", "stack", d, src, "ok", FALSE)
    /\ UNCHANGED <<heap, fault, inp, out>>

\* impl Clone for StackSid: clone is self.as_sid().into()
StackClone(d, g, src) ==
    /\ Running /\ Empty(d) /\ slots[src].kind = "stack"
    /\ slots' = [slots EXCEPT ![d] = Stack_from_sid(g, StackAsSid(slots[src]))]
    /\ res' = Result("clone", "stack", d, src, "ok", FALSE)
    /\ UNCHANGED <<heap, fault, inp, out>>

\* impl Clone for StackSid: clone_from
StackCloneFrom(d, src) ==
    /\ Running /\ d # src /\ slots[d].kind = "stack" /\ slots[src].kind = "stack"
    /\ slots' = [slots EXCEPT ![d] = Stack_clone_from(slots[d], slots[src])]
    /\ res' = Result("clone_from", "stack", d, src, "ok", FALSE)
    /\ UNCHANGED <<heap, fault, inp, out>>

\* ConstSid::<N>::new
ConstNew(d, n, auth) ==
    /\ Running /\ Empty(d)
    /\ slots' = [slots EXCEPT ![d] = Const_new(n, auth, Ramp(n))]
    /\ res' = Result("new", "const", d, d, "ok", FALSE)
    /\ UNCHANGED <<heap, fault, inp, out>>

\* ConstSid::<N>::try_from(&Sid), and through it try_from(SecurityIdentifier)
ConstTryFrom(d, n, src) ==
    LET r == Const_try_from(n, AsSid(heap, slots[src])) IN
    /\ Running /\ Empty(d) /\ ~Empty(src)
    /\ IF r.ok
       THEN /\ slots' = [slots EXCEPT ![d] = r.val]
            /\ res' = Result("try_from", "const", d, src, "ok", FALSE)
       ELSE /\ res' = Result("try_from", "const", d, src, "err", FALSE)
            /\ UNCHANGED slots
    /\ UNCHANGED <<heap, fault, inp, out>>

\* #[derive(Clone, Copy)] on ConstSid
ConstCopy(d, src) ==
    /\ Running /\ Empty(d) /\ slots[src].kind = "const"
    /\ slots' = [slots EXCEPT ![d] = slots[src]]
    /\ res' = Result("clone", "const", d, src, "ok", FALSE)
    /\ UNCHANGED <<heap, fault, inp, out>>

\* a write to the public field revision, through as_sid_mut or directly
WriteRevision(d, rev) ==
    LET w == WriteField(heap, slots[d], REVISION_OFFSET, <<rev>>) IN
    /\ Running /\ ~Empty(d)
    /\ heap' = w.heap
    /\ slots' = [slots EXCEPT ![d] = w.val]
    /\ res' = Result("write", slots[d].kind, d, d, "ok", FALSE)
    /\ UNCHANGED <<fault, inp, out>>

\* a write to the public field identifier_authority
WriteAuthority(d, auth) ==
    LET w == WriteField(heap, slots[d], AUTHORITY_OFFSET, auth) IN
    /\ Running /\ ~Empty(d)
    /\ heap' = w.heap
    /\ slots' = [slots EXCEPT ![d] = w.val]
    /\ res' = Result("write", slots[d].kind, d, d, "ok", FALSE)
    /\ UNCHANGED <<fault, inp, out>>

\* a write to element i of the public field sub_authority; the place has
\* metadata-many elements and an index past it panics
WriteSubAuthority(d, i, v) ==
    LET w == WriteField(heap, slots[d], SID_HEAD_SIZE + U32_SIZE * i, U32ToLE(v)) IN
    /\ Running /\ ~Empty(d)
    /\ IF i < TailLen(AsSid(heap, slots[d]).meta)
       THEN /\ heap' = w.heap
            /\ slots' = [slots EXCEPT ![d] = w.val]
            /\ res' = Result("write", slots[d].kind, d, d, "ok", FALSE)
       ELSE /\ res' = Result("write", slots[d].kind, d, d, "panic", FALSE)
            /\ UNCHANGED <<heap, slots>>
    /\ UNCHANGED <<fault, inp, out>>

\* the value goes out of scope: impl Drop for SecurityIdentifier, nothing
\* for the inline representations
DropValue(d) ==
    /\ Running /\ ~Empty(d)
    /\ IF slots[d].kind = "heap"
       THEN IF DeallocOk(heap, slots[d].ptr, DropLayout(slots[d]))
            THEN heap' = Dealloc(heap, slots[d].ptr) /\ UNCHANGED fault
            ELSE fault' = "bad_dealloc" /\ UNCHANGED heap
       ELSE UNCHANGED <<heap, fault>>
    /\ slots' = [slots EXCEPT ![d] = NoValue]
    /\ res' = Result("drop", slots[d].kind, d, d, "ok", FALSE)
    /\ UNCHANGED <<inp, out>>

ConstNs == ValidLens

\* the slots and addresses an operation can pick from in the current state
Vacant == {s \in Slots : slots[s].kind = "none"}
Held(kinds) == {s \in Slots : slots[s].kind \in kinds}
Kinds == {"heap", "stack", "const"}
FreeAddrs == {a \in Addrs : ~heap[a].live}

\* whether the build traps on the undefined unwrap is open only where the
\* unwrap is undefined
Traps(subs) == IF from_count(Len(subs) % U8_RANGE).some THEN {FALSE} ELSE BOOLEAN

Next ==
    \/ \E d \in Vacant, a \in FreeAddrs, g \in Garbage, rev \in Revs, auth \in Auths,
          subs \in SubSlices : \E trap \in Traps(subs) :
          SecTryNew(d, a, g, rev, auth, subs, trap)
    \/ \E d \in Vacant, a \in FreeAddrs, g \in Garbage, text \in MainTexts :
          SecFromStr(d, a, g, text)
    \/ \E d \in Vacant, a \in FreeAddrs, g \in Garbage, src \in Held(Kinds) :
          SecFromBytes(d, a, g, src)
    \/ \E d \in Vacant, a \in FreeAddrs, g \in Garbage, src \in Held({"heap"}) :
          SecClone(d, a, g, src)
    \/ \E d \in Held({"heap"}), src \in Held({"heap"}) : SecCloneFrom(d, src)
    \/ \E d \in Vacant, a \in FreeAddrs, g \in Garbage, src \in Held(Kinds) :
          ToOwned(d, a, g, src)
    \/ \E d \in Vacant, g \in Garbage, auth \in Auths, subs \in SubSlices :
          StackTryNew(d, g, auth, subs)
    \/ \E d \in Vacant, g \in Garbage, text \in MainTexts : StackFromStr(d, g, text)
    \/ \E d \in Vacant, g \in Garbage, src \in Held(Kinds) :
          StackFromBytes(d, g, src)
    \/ \E d \in Vacant, g \in Garbage, src \in Held({"heap", "const"}) :
          StackFromSid(d, g, src)
    \/ \E d \in Vacant, g \in Garbage, src \in Held({"stack"}) : StackClone(d, g, src)
    \/ \E d \in Held({"stack"}), src \in Held({"stack"}) : StackCloneFrom(d, src)
    \/ \E d \in Vacant, n \in ConstNs, auth \in Auths : ConstNew(d, n, auth)
    \/ \E d \in Vacant, n \in ConstNs, src \in Held(Kinds) : ConstTryFrom(d, n, src)
    \/ \E d \in Vacant, src \in Held({"const"}) : ConstCopy(d, src)
    \/ \E d \in Held(Kinds), rev \in Revs : WriteRevision(d, rev)
    \/ \E d \in Held(Kinds), auth \in Auths : WriteAuthority(d, auth)
    \/ \E d \in Held(Kinds) : WriteSubAuthority(d, 0, U32_MAX)
    \/ \E d \in Held(Kinds) : DropValue(d)

Spec == Init /\ [][Next]_vars

-----------------------------------------------------------------------------
(* Properties of Spec *)

Values == {s \in Slots : slots[s].kind # "none"}
HeapValues == {s \in Slots : slots[s].kind = "heap"}
ViewOf(s) == AsSid(heap, slots[s])

\* C1: in every state a client can observe, every value of every
\* representation stores a sub-authority count in 1..=15, its trailing array
\* and get_sub_authorities() have exactly that many elements, and a
\* ConstSid<N> stores N.
C1_CountInvariant ==
    \A s \in Values :
        LET sid == ViewOf(s) IN
        /\ sub_authority_count(sid) \in MIN_SUBAUTHORITY_COUNT..MAX_SUBAUTHORITY_COUNT
        /\ Len(get_sub_authorities(sid)) = sub_authority_count(sid)
        /\ TailLen(sid.meta) = sub_authority_count(sid)
        /\ slots[s].kind = "const" => sub_authority_count(sid) = slots[s].N

\* a ConstSid<15> converted from a StackSid whose revision was written
\* through as_sid_mut
C1_Witness ==
    /\ C1_CountInvariant
    /\ res.op = "try_from" /\ res.outcome = "ok"
    /\ slots[res.dst].kind = "const" /\ slots[res.dst].N = MAX_SUBAUTHORITY_COUNT
    /\ slots[res.src].kind = "stack"
    /\ revision(ViewOf(res.src)) # REVISION

\* C2: every SecurityIdentifier owns a live allocation whose layout is the
\* one it was allocated with, which is the SidSizeInfo layout of its current
\* count, and is the one drop hands to dealloc; every live allocation has
\* exactly one owner, so each is freed once and none is shared or leaked; no
\* dealloc was ever given a dead pointer or another layout.
C2_AllocationSafety ==
    /\ fault # "bad_dealloc"
    /\ \A s \in HeapValues :
          LET v == slots[s]
              info == from_count(sub_authority_count(ViewOf(s))) IN
          /\ heap[v.ptr].live
          /\ info.some
          /\ heap[v.ptr].layout = get_layout(info.val)
          /\ DropLayout(v) = heap[v.ptr].layout
          /\ Len(heap[v.ptr].mem) = heap[v.ptr].layout.size
    /\ \A s, t \in HeapValues : s # t => slots[s].ptr # slots[t].ptr
    /\ \A a \in Addrs : heap[a].live => \E s \in HeapValues : slots[s].ptr = a

\* a SecurityIdentifier was dropped, its allocation is free again, and the
\* other one, of another size, is still live
C2_Witness ==
    /\ res.op = "drop" /\ res.kind = "heap" /\ fault = "none"
    /\ \E s \in HeapValues, a \in Addrs :
          /\ ~heap[a].live
          /\ heap[slots[s].ptr].live
          /\ sub_authority_count(ViewOf(s)) = MAX_SUBAUTHORITY_COUNT

\* C4: dst.clone_from(&src) on two SecurityIdentifier values completes
\* whether or not their counts agree, leaves dst's binary span byte-identical
\* to src's in an allocation of the size of src's count, and src.clone() is
\* byte-identical to src.
C4_CloneFromAnyCount ==
    /\ (res.op = "clone_from" /\ res.kind = "heap") =>
          /\ res.outcome = "ok"
          /\ as_binary(ViewOf(res.dst)) = as_binary(ViewOf(res.src))
          /\ heap[slots[res.dst].ptr].layout.size
                = get_current_min_layout(ViewOf(res.src)).size
    /\ (res.op = "clone" /\ res.kind = "heap") =>
          /\ res.outcome = "ok"
          /\ as_binary(ViewOf(res.dst)) = as_binary(ViewOf(res.src))

\* clone_from between two SecurityIdentifier values of different counts
\* ended in the panic of copy_from_slice
C4_Witness ==
    /\ res.op = "clone_from" /\ res.kind = "heap" /\ res.outcome = "panic"
    /\ sub_authority_count(ViewOf(res.dst)) # sub_authority_count(ViewOf(res.src))

\* C6: building a value of the same representation from x.as_binary()
\* succeeds and gives a value equal to x, for every SecurityIdentifier or
\* StackSid x the constructors produce, try_new with any revision included.
C6_ByteRoundTrip ==
    (res.op = "from_bytes" /\ slots[res.src].kind = res.kind) =>
        /\ res.outcome = "ok"
        /\ SidEq(ViewOf(res.dst), ViewOf(res.src))

\* try_new stored a revision other than 1
C6_Witness ==
    /\ res.op = "try_new" /\ res.kind = "heap" /\ res.outcome = "some"
    /\ revision(ViewOf(res.dst)) # REVISION

\* C7: two identifiers of any representations are equal through their views
\* exactly when they have the same revision, count, authority and
\* sub-authorities, which is when their minimal binary spans are the same
\* bytes; the storage past 8 + 4*count bytes has no say.
C7_Equality ==
    \A s, t \in Values :
        LET a == ViewOf(s)
            b == ViewOf(t)
            same == /\ revision(a) = revision(b)
                    /\ sub_authority_count(a) = sub_authority_count(b)
                    /\ identifier_authority(a) = identifier_authority(b)
                    /\ get_sub_authorities(a) = get_sub_authorities(b)
            span(v) == SubSeq(v.mem, 1, 8 + 4 * v.mem[COUNT_OFFSET + 1])
        IN /\ SidEq(a, b) = same
           /\ SidEq(a, b) = (span(a) = span(b))

\* two equal values whose storage differs past the span
C7_Witness ==
    /\ Values = Slots
    /\ SidEq(ViewOf("x"), ViewOf("y"))
    /\ Backing(heap, slots["x"]) # Backing(heap, slots["y"])
    /\ Len(Backing(heap, slots["x"])) = Len(Backing(heap, slots["y"]))

\* what hashing a value feeds to the Hasher
HashOf(s) ==
    IF slots[s].kind = "const" THEN ConstHash(slots[s]) ELSE SidHash(ViewOf(s))

\* C8: values that compare equal feed the same bytes to the Hasher, whatever
\* their representations, and ConstSid<N>'s own Hash feeds what its view's
\* does: revision, count, authority, then the count sub-authorities.
C8_HashAgreesWithEq ==
    /\ \A s, t \in Values : SidEq(ViewOf(s), ViewOf(t)) => HashOf(s) = HashOf(t)
    /\ \A s \in Values :
          slots[s].kind = "const" => ConstHash(slots[s]) = SidHash(ConstAsSid(slots[s]))

\* a ConstSid and a StackSid that compare equal
C8_Witness ==
    /\ Values = Slots
    /\ slots["x"].kind = "const" /\ slots["y"].kind = "stack"
    /\ SidEq(ViewOf("x"), ViewOf("y"))
    /\ HashOf("x") = HashOf("y")

\* C9: as_binary() is the first 8 + 4*count bytes of the value; for a StackSid
\* it is the whole 68 bytes only when count is 15; ConstSid::as_bytes() is
\* the same bytes as as_sid().as_binary().
C9_BinaryAccessor ==
    \A s \in Values :
        LET sid == ViewOf(s)
            n == 8 + 4 * sub_authority_count(sid) IN
        /\ Len(as_binary(sid)) = n
        /\ as_binary(sid) = SubSeq(Backing(heap, slots[s]), 1, n)
        /\ (slots[s].kind = "stack" /\ Len(as_binary(sid)) = Len(slots[s].mem))
              => sub_authority_count(sid) = 15
        /\ slots[s].kind = "const" => as_bytes(slots[s]) = as_binary(sid)

\* a StackSid of one sub-authority beside a ConstSid<15>
C9_Witness ==
    /\ \E s \in Values :
          /\ slots[s].kind = "stack"
          /\ Len(as_binary(ViewOf(s))) = 12
          /\ Len(slots[s].mem) = 68
    /\ \E s \in Values :
          /\ slots[s].kind = "const"
          /\ Len(as_bytes(slots[s])) = 68

StackValues == {s \in Slots : slots[s].kind = "stack"}

\* the revision, count, authority and first count slots of a StackSid, read
\* off its storage
LogicalContent(v) == SubSeq(v.mem, 1, SID_HEAD_SIZE + U32_SIZE * v.mem[COUNT_OFFSET + 1])

\* C10: two StackSid values with the same revision, count, authority and
\* first count slots give the same get_sub_authorities, as_binary, Display,
\* Debug and hash and compare equal, whatever their unused slots hold.
C10_HistoryIndependence ==
    \A s, t \in StackValues :
        (s # t /\ LogicalContent(slots[s]) = LogicalContent(slots[t])) =>
            LET a == StackAsSid(slots[s])
                b == StackAsSid(slots[t]) IN
            /\ get_sub_authorities(a) = get_sub_authorities(b)
            /\ as_binary(a) = as_binary(b)
            /\ Display(a) = Display(b)
            /\ StackDebug(slots[s]) = StackDebug(slots[t])
            /\ SidEq(a, b)
            /\ SidHash(a) = SidHash(b)

\* a StackSid that held a longer identifier and was overwritten by clone_from
\* with a shorter one, beside the one it was cloned from
C10_Witness ==
    /\ res.op = "clone_from" /\ res.kind = "stack"
    /\ LogicalContent(slots[res.dst]) = LogicalContent(slots[res.src])
    /\ slots[res.dst].mem # slots[res.src].mem
    /\ \E i \in (Len(LogicalContent(slots[res.dst])) + 1)..STACK_SIZE :
          slots[res.dst].mem[i] \notin Garbage

\* C11: dst.clone_from(&src) on two StackSid values, whatever their counts,
\* makes the first 8 + 4*src.count bytes of dst the bytes of src's binary
\* span, leaves every byte of dst's inline storage past that span as it was,
\* leaves src alone, and afterwards dst == src; src.clone() == src.
C11_StackCloneFromFrame ==
    [][/\ (res'.op = "clone_from" /\ res'.kind = "stack") =>
            LET d == res'.dst
                s == res'.src
                n == 8 + 4 * sub_authority_count(StackAsSid(slots[s])) IN
            /\ SubSeq(slots'[d].mem, 1, n) = as_binary(StackAsSid(slots[s]))
            /\ SubSeq(slots'[d].mem, n + 1, STACK_SIZE)
                  = SubSeq(slots[d].mem, n + 1, STACK_SIZE)
            /\ Len(slots'[d].mem) = STACK_SIZE
            /\ slots'[s] = slots[s]
            /\ SidEq(StackAsSid(slots'[d]), StackAsSid(slots'[s]))
       /\ (res'.op = "clone" /\ res'.kind = "stack") =>
            /\ slots'[res'.src] = slots[res'.src]
            /\ SidEq(StackAsSid(slots'[res'.dst]), StackAsSid(slots'[res'.src]))
      ]_vars

\* a StackSid of 15 sub-authorities took a source of one by clone_from and
\* still holds its former sub-authorities 2..15 past the span
C11_Witness ==
    /\ res.op = "clone_from" /\ res.kind = "stack"
    /\ sub_authority_count(ViewOf(res.src)) = 1
    /\ SidEq(ViewOf(res.dst), ViewOf(res.src))
    /\ SubSeq(slots[res.dst].mem, 13, STACK_SIZE)
          = SubSeq(EncodeSubs(Ramp(MAX_SUBAUTHORITY_COUNT)), 5, 60)

\* C12: ConstSid::<N>::try_from(view) succeeds exactly when the view's
\* count is N; on success the result has the source's revision, authority and
\* sub-authorities and count N and compares equal to it; on failure it
\* returns the error and builds nothing; the source is not modified either
\* way.
C12_ConstTryFrom ==
    [][\A d \in {res'.dst}, src \in {res'.src}, n \in ConstNs :
          (res'.op = "try_from" /\ ConstTryFrom(d, n, src)) =>
             LET sid == AsSid(heap, slots[src])
                 fits == sub_authority_count(sid) = n IN
             /\ res'.outcome = (IF fits THEN "ok" ELSE "err")
             /\ fits =>
                   LET c == ConstAsSid(slots'[d]) IN
                   /\ slots'[d].kind = "const" /\ slots'[d].N = n
                   /\ revision(c) = revision(sid)
                   /\ identifier_authority(c) = identifier_authority(sid)
                   /\ get_sub_authorities(c) = get_sub_authorities(sid)
                   /\ sub_authority_count(c) = n
                   /\ SidEq(c, sid)
             /\ ~fits => slots'[d] = NoValue
             /\ slots'[src] = slots[src]
             /\ heap' = heap
      ]_vars

\* a SecurityIdentifier of 15 sub-authorities was refused by ConstSid<1> and
\* is still there, allocation and all
C12_Witness ==
    /\ res.op = "try_from" /\ res.outcome = "err"
    /\ slots[res.dst] = NoValue
    /\ slots[res.src].kind = "heap"
    /\ heap[slots[res.src].ptr].live
    /\ sub_authority_count(ViewOf(res.src)) = MAX_SUBAUTHORITY_COUNT

\* C13: to_owned / From on the view of any StackSid, ConstSid<N> or
\* SecurityIdentifier completes, allocates exactly 8 + 4*count bytes for the
\* source's count (not the 68 bytes of a StackSid), and gives a
\* SecurityIdentifier that compares equal to the source and hashes as it does.
C13_IntoHeapOwned ==
    res.op = "to_owned" =>
        LET src == ViewOf(res.src)
            n == 8 + 4 * sub_authority_count(src) IN
        /\ res.outcome = "ok"
        /\ slots[res.dst].kind = "heap"
        /\ heap[slots[res.dst].ptr].live
        /\ heap[slots[res.dst].ptr].layout.size = n
        /\ Len(heap[slots[res.dst].ptr].mem) = n
        /\ slots[res.dst].layout.size = n
        /\ SidEq(ViewOf(res.dst), src)
        /\ HashOf(res.dst) = HashOf(res.src)

\* a StackSid of one sub-authority, 68 bytes inline, converted into an
\* allocation of 12 bytes
C13_Witness ==
    /\ res.op = "to_owned" /\ res.outcome = "ok"
    /\ slots[res.src].kind = "stack"
    /\ Len(slots[res.src].mem) = 68
    /\ heap[slots[res.dst].ptr].layout.size = 12
    /\ SidEq(ViewOf(res.dst), ViewOf(res.src))

\* C14: SecurityIdentifier::try_new and StackSid::try_new return None,
\* without allocating or writing any storage, exactly when the slice has 0 or
\* more than 15 elements; for 1..=15 elements they return a value with that
\* count, the slice as its sub-authorities and the authority given.
C14_ValidatedConstruction ==
    [][res'.op = "try_new" =>
          LET d == res'.dst
              Built(auth, subs) ==
                  /\ res'.outcome = "some"
                  /\ slots'[d].kind = res'.kind
                  /\ sub_authority_count(AsSid(heap', slots'[d])) = Len(subs)
                  /\ get_sub_authorities(AsSid(heap', slots'[d])) = subs
                  /\ identifier_authority(AsSid(heap', slots'[d])) = auth
              Refused ==
                  /\ res'.outcome = "none"
                  /\ ~res'.allocated
                  /\ heap' = heap /\ slots' = slots /\ fault' = fault
              Valid(subs) ==
                  Len(subs) \in MIN_SUBAUTHORITY_COUNT..MAX_SUBAUTHORITY_COUNT
          IN
          /\ \A a \in Addrs, g \in Garbage, rev \in Revs, auth \in Auths,
                subs \in SubSlices, trap \in BOOLEAN :
                SecTryNew(d, a, g, rev, auth, subs, trap) =>
                    IF Valid(subs) THEN Built(auth, subs) ELSE Refused
          /\ \A g \in Garbage, auth \in Auths, subs \in SubSlices :
                StackTryNew(d, g, auth, subs) =>
                    IF Valid(subs) THEN Built(auth, subs) ELSE Refused
      ]_vars

\* SecurityIdentifier::try_new on a slice of 257 elements ended in the panic
\* of copy_from_slice, after allocating
C14_Witness ==
    /\ res.op = "try_new" /\ res.kind = "heap"
    /\ res.outcome = "panic" /\ res.allocated

\* C15: every value a client holds, of any owning representation, after any
\* sequence of constructions, parses, from_bytes, conversions and writes to
\* the public fields, has revision 1.
C15_RevisionPinned ==
    \A s \in Values : revision(ViewOf(s)) = REVISION

\* a StackSid, built with the revision pinned, after a write of 2 to its
\* public field revision
C15_Witness ==
    /\ res.op = "write" /\ res.kind = "stack" /\ res.outcome = "ok"
    /\ revision(StackAsSid(slots[res.dst])) = REVISION + 1

-----------------------------------------------------------------------------
(* The byte validator on its own: SpecBytes hands it one buffer            *)

\* the bound of the buffer lengths tried, beside the lengths around MAX_SIZE
BufLens == (0..MaxBufLen) \cup {MAX_SIZE - 1, MAX_SIZE, MAX_SIZE + U32_SIZE}
BufRevisions == {0, REVISION, REVISION + 1}
BufCounts == {0, 1, 2, 3, MAX_SUBAUTHORITY_COUNT, MAX_SUBAUTHORITY_COUNT + 1, U8_RANGE - 1}

\* a buffer of len bytes that starts with rev and cnt as far as it reaches
Buf(len, rev, cnt) == SubSeq(<<rev, cnt>> \o Fill(len, 0), 1, len)

Buffers == {Buf(len, rev, cnt) : len \in BufLens, rev \in BufRevisions, cnt \in BufCounts}

Idle ==
    /\ heap = [a \in Addrs |-> FreeEntry]
    /\ slots = [s \in Slots |-> NoValue]
    /\ res = Result("init", "none", "x", "x", "ok", FALSE)
    /\ fault = "none"

InitBytes ==
    /\ Idle
    /\ inp \in {[tag |-> "buf", buf |-> b] : b \in Buffers}
    /\ out = NoIO

\* the buffer goes through validate_sid_bytes_unaligned, Sid::from_bytes
\* and StackSid::from_bytes
ValidateBytes(g) ==
    /\ inp.tag = "buf" /\ out = NoIO
    /\ out' = [tag |-> "validated",
               ok |-> validate_sid_bytes_unaligned(inp.buf).ok,
               reads |-> validate_sid_bytes_unaligned(inp.buf).reads,
               sid_ok |-> from_bytes(inp.buf).ok,
               stack_ok |-> Stack_from_bytes(g, inp.buf).ok]
    /\ UNCHANGED <<heap, slots, res, fault, inp>>

NextBytes == \E g \in Garbage : ValidateBytes(g)

SpecBytes == InitBytes /\ [][NextBytes]_vars

\* C3: the validator, and from_bytes with it, accepts exactly the buffers of
\* at least 12 bytes whose first byte is 1, whose second byte is in 1..=15
\* and whose length is 8 + 4 * that byte, and it reads no index at or past
\* the buffer's length.
C3_ByteValidation ==
    out.tag = "validated" =>
        LET buf == inp.buf IN
        /\ out.ok = (/\ Len(buf) >= 12
                     /\ buf[1] = 1
                     /\ buf[2] \in 1..15
                     /\ Len(buf) = 8 + 4 * buf[2])
        /\ \A i \in out.reads : i < Len(buf)
        /\ out.sid_ok = out.ok
        /\ out.stack_ok = out.ok

\* an accepted buffer of the largest size, after the two header reads
C3_Witness ==
    /\ out.tag = "validated" /\ out.ok
    /\ Len(inp.buf) = MAX_SIZE
    /\ out.reads = {REVISION_OFFSET, COUNT_OFFSET}

-----------------------------------------------------------------------------
(* Text on its own: SpecText formats an identifier, parses the text and    *)
(* formats what was parsed                                                 *)

\* the bound of the sub-authority counts tried, beside 15
MaxTextLen == 2

TextAuths ==
    {<<0, 0, 0, 0, 0, 0>>, NT_AUTHORITY, <<0, 0, 0, 0, 1, 0>>,
     <<0, 0, 255, 255, 255, 255>>, WIDE_AUTHORITY, <<255, 255, 255, 255, 255, 255>>}

TextSubs ==
    {Ramp(n) : n \in (1..MaxTextLen) \cup {MAX_SUBAUTHORITY_COUNT}}
    \cup {<<U32(0)>>, <<U32_MAX>>}

\* the identifier try_new(1, auth, subs) builds, as a view
Identifier(auth, subs) == Str(<<REVISION, Len(subs)>> \o auth \o EncodeSubs(subs))

InitText ==
    /\ Idle
    /\ inp \in {[tag |-> "id", auth |-> a, subs |-> s] : a \in TextAuths, s \in TextSubs}
    /\ out = NoIO

\* x.to_string(), x.as_binary() and from_bytes of that span
Format ==
    /\ inp.tag = "id" /\ out = NoIO
    /\ out' = [tag |-> "formatted", text |-> Display(Identifier(inp.auth, inp.subs)),
               binary |-> as_binary(Identifier(inp.auth, inp.subs)),
               rebuilt |-> from_bytes(as_binary(Identifier(inp.auth, inp.subs)))]
    /\ UNCHANGED <<heap, slots, res, fault, inp>>

\* text.parse()
Parse ==
    /\ out.tag = "formatted"
    /\ out' = [tag |-> "parsed", text |-> out.text, c |-> SidComponents_from_str(out.text)]
    /\ UNCHANGED <<heap, slots, res, fault, inp>>

\* the parsed identifier's to_string()
Reformat ==
    /\ out.tag = "parsed" /\ out.c.ok
    /\ out' = [tag |-> "reformatted", text |-> out.text,
               again |-> Display(Identifier(out.c.identifier_authority,
                                            out.c.sub_authority))]
    /\ UNCHANGED <<heap, slots, res, fault, inp>>

NextText == Format \/ Parse \/ Reformat

SpecText == InitText /\ [][NextText]_vars

\* C5: for every identifier of revision 1, any authority and 1 to 15
\* sub-authorities, parsing its text succeeds and gives the identifier back,
\* and formatting what was parsed gives the text back.
C5_TextRoundTrip ==
    /\ out.tag = "parsed" =>
          /\ out.c.ok
          /\ out.c.revision = REVISION
          /\ out.c.identifier_authority = inp.auth
          /\ out.c.sub_authority = inp.subs
    /\ out.tag = "reformatted" => out.again = out.text

\* the text of an identifier whose authority is above 0xFFFFFFFF was
\* refused by the parser
C5_Witness ==
    /\ out.tag = "parsed" /\ ~out.c.ok
    /\ inp.auth = WIDE_AUTHORITY
    /\ SubSeq(out.text, 1, 6) = <<"S", "-", "1", "-", "0", "x">>

\* C21: the text of an identifier of revision 1 is S, the revision, the
\* authority and the count sub-authorities in order, each after a dash, so
\* count + 2 dashes and S-1- in front; the authority is in decimal when it
\* is at most 0xFFFFFFFF and otherwise 0x and uppercase hexadecimal; every
\* sub-authority is in decimal.
C21_DisplayFormat ==
    out.tag = "formatted" =>
        LET fields == SplitDash(out.text, <<>>)
            count == Len(inp.subs)
            Plain(f) == /\ f # <<>>
                        /\ \A i \in 1..Len(f) : IsDigit(f[i])
                        /\ Len(f) > 1 => f[1] # "0"
            hex == SubSeq(fields[3], 3, Len(fields[3]))
            pad == 2 * AUTHORITY_LEN - Len(hex)
            nibble == [i \in 1..(2 * AUTHORITY_LEN) |->
                         IF i <= pad THEN 0
                         ELSE (CHOOSE k \in 1..16 : HexChars[k] = hex[i - pad]) - 1]
        IN
        /\ Len(fields) = count + 3
        /\ Len(SelectSeq(out.text, LAMBDA c : c = "-")) = count + 2
        /\ SubSeq(out.text, 1, 4) = <<"S", "-", "1", "-">>
        /\ fields[1] = <<"S">> /\ fields[2] = <<"1">>
        /\ IF IsZero(SubSeq(inp.auth, 1, 2))
           THEN /\ Plain(fields[3])
                /\ ParseUint(fields[3], 8) = [ok |-> TRUE, val |-> <<0, 0>> \o inp.auth]
           ELSE /\ SubSeq(fields[3], 1, 2) = <<"0", "x">>
                /\ hex # <<>> /\ hex[1] # "0" /\ pad >= 0
                /\ \A i \in 1..Len(hex) : \E k \in 1..16 : HexChars[k] = hex[i]
                /\ inp.auth = [j \in 1..AUTHORITY_LEN |->
                                  16 * nibble[2 * j - 1] + nibble[2 * j]]
        /\ \A i \in 1..count :
              /\ Plain(fields[i + 3])
              /\ ParseUint(fields[i + 3], U32_SIZE) = [ok |-> TRUE, val |-> inp.subs[i]]

\* the largest authority still printed in decimal, 0xFFFFFFFF
C21_Witness ==
    /\ out.tag = "formatted"
    /\ inp.auth = <<0, 0, 255, 255, 255, 255>>
    /\ SubSeq(out.text, 1, 15)
          = <<"S", "-", "1", "-", "4", "2", "9", "4", "9", "6", "7", "2", "9", "5", "-">>

\* C22: the binary span of an identifier is the revision, the count, the
\* six authority bytes in order and, at offset 8 + 4*i, the four bytes of
\* sub-authority i least significant first; NT authority with [32, 544] is
\* S-1-5-32-544 and 1,2,0,0,0,0,0,5,32,0,0,0,32,2,0,0, and an identifier
\* built from those bytes has that text.
C22_BinaryLayout ==
    out.tag = "formatted" =>
        LET count == Len(inp.subs)
            example == <<1, 2, 0, 0, 0, 0, 0, 5, 32, 0, 0, 0, 32, 2, 0, 0>>
            text == <<"S", "-", "1", "-", "5", "-", "3", "2", "-", "5", "4", "4">>
        IN
        /\ Len(out.binary) = 8 + 4 * count
        /\ out.binary[1] = 1
        /\ out.binary[2] = count
        /\ SubSeq(out.binary, 3, 8) = inp.auth
        /\ \A i \in 0..(count - 1) :
              LET v == inp.subs[i + 1] IN
              SubSeq(out.binary, 8 + 4 * i + 1, 8 + 4 * i + 4) = <<v[4], v[3], v[2], v[1]>>
        /\ out.rebuilt.ok
        /\ as_binary(out.rebuilt.sid) = out.binary
        /\ (inp.auth = NT_AUTHORITY /\ inp.subs = <<U32(32), U32(544)>>) =>
              /\ out.text = text
              /\ out.binary = example
              /\ from_bytes(example).ok
              /\ Display(from_bytes(example).sid) = text

\* S-1-5-32-544 and its 16 bytes
C22_Witness ==
    /\ out.tag = "formatted"
    /\ out.text = <<"S", "-", "1", "-", "5", "-", "3", "2", "-", "5", "4", "4">>
    /\ out.binary = <<1, 2, 0, 0, 0, 0, 0, 5, 32, 0, 0, 0, 32, 2, 0, 0>>
    /\ out.rebuilt.ok

-----------------------------------------------------------------------------
(* Sizes on their own: SpecSize puts every u8 count through from_count and *)
(* get_layout and a range of byte sizes through from_full_size             *)

\* the largest byte size tried without a gap
MaxFullSize == 72

SizeCounts == 0..(U8_RANGE - 1)

\* beside the small sizes, sizes whose quotient by 4 is 256, 257 and 271
FullSizes ==
    (0..MaxFullSize)
    \cup {SID_HEAD_SIZE + U32_SIZE * (U8_RANGE + k) : k \in {0, 1, MAX_SUBAUTHORITY_COUNT}}

InitSize ==
    /\ Idle
    /\ inp \in {[tag |-> "count", count |-> c] : c \in SizeCounts}
              \cup {[tag |-> "size", size |-> n] : n \in FullSizes}
    /\ out = NoIO

FromCount ==
    /\ inp.tag = "count" /\ out = NoIO
    /\ out' = [tag |-> "from_count", info |-> from_count(inp.count)]
    /\ UNCHANGED <<heap, slots, res, fault, inp>>

\* the layout of the SidSizeInfo just made, of the ConstSid of as many
\* sub-authorities, and of an identifier with that count
GetLayout ==
    /\ out.tag = "from_count" /\ out.info.some
    /\ LET n == get_sub_authority_count(out.info.val)
           sid == Str(<<REVISION, n>> \o NT_AUTHORITY \o Fill(n * U32_SIZE, 0))
       IN out' = [tag |-> "layout",
                  count |-> n,
                  layout |-> get_layout(out.info.val),
                  const_layout |-> ConstSid_layout(n),
                  current |-> get_current_min_layout(sid)]
    /\ UNCHANGED <<heap, slots, res, fault, inp>>

FromFullSize ==
    /\ inp.tag = "size" /\ out = NoIO
    /\ out' = [tag |-> "from_full_size", info |-> from_full_size(inp.size)]
    /\ UNCHANGED <<heap, slots, res, fault, inp>>

NextSize == FromCount \/ GetLayout \/ FromFullSize

SpecSize == InitSize /\ [][NextSize]_vars

\* C16: for every u8 count, from_count(count) is Some exactly when count is
\* in 1..=15, so None for 0 and for 16..=255, and the SidSizeInfo returned
\* reports the count given.
C16_FromCount ==
    out.tag = "from_count" =>
        /\ out.info.some = (inp.count \in 1..15)
        /\ (inp.count = 0 \/ inp.count \in 16..255) => out.info = None
        /\ out.info.some => get_sub_authority_count(out.info.val) = inp.count

\* from_count(16) returned None
C16_Witness ==
    /\ out.tag = "from_count"
    /\ inp.count = MAX_SUBAUTHORITY_COUNT + 1
    /\ out.info = None

\* C17: for every count in 1..=15 the SidSizeInfo layout has size
\* 8 + 4*count and alignment 4, is the layout of ConstSid<count>, and is what
\* get_current_min_layout returns for an identifier of that count.
C17_SizeFormula ==
    out.tag = "layout" =>
        /\ out.count \in 1..15
        /\ out.layout.size = 8 + 4 * out.count
        /\ out.layout.align = 4
        /\ out.layout.size = 1 + 1 + 6 + 4 * out.count
        /\ out.const_layout = out.layout
        /\ out.current = out.layout

\* the layout of count 1: 12 bytes, aligned to 4
C17_Witness ==
    /\ out.tag = "layout" /\ out.count = 1
    /\ out.layout = [size |-> 12, align |-> 4]
    /\ out.const_layout = out.layout

-----------------------------------------------------------------------------
(* The parser on its own: SpecParse hands SidComponents::from_str texts    *)
(* made of a head and '-'-prefixed fields, well formed or not              *)

\* how many further fields follow the first sub-authority field
MaxTailLen == 1

\* a field of a text: its characters, what it is (digits only, digits after
\* a '+', or not a number) and, for a number, its value as a numeral of nine
\* bytes, most significant first
Field(kind, prefix, val) ==
    [kind |-> kind, text |-> prefix \o FormatDecimal(val), val |-> val]
NotANumber(text) == [kind |-> "bad", text |-> text, val |-> Fill(9, 0)]
Small(n) == <<0, 0, 0, 0, 0>> \o U32(n)

POW_2_32 == <<0, 0, 0, 0, 1, 0, 0, 0, 0>>
POW_2_48 == <<0, 0, 1, 0, 0, 0, 0, 0, 0>>
POW_2_64 == <<1, 0, 0, 0, 0, 0, 0, 0, 0>>
U64_MAX == <<0, 255, 255, 255, 255, 255, 255, 255, 255>>

ParseHeads == {<<"S">>, <<"s">>, <<>>, <<"X">>, <<"S", "s">>}

RevFields ==
    {Field("dec", <<>>, Small(1)), Field("dec", <<>>, Small(2)),
     Field("dec", <<>>, Small(0)), Field("dec", <<"0">>, Small(1)),
     Field("dec", <<>>, Small(U8_RANGE + 1)), Field("plus", <<"+">>, Small(1)),
     NotANumber(<<>>)}

AuthFields ==
    {Field("dec", <<>>, Small(5)), Field("dec", <<"0", "0">>, Small(5)),
     Field("dec", <<>>, POW_2_32), Field("dec", <<>>, POW_2_48),
     Field("dec", <<>>, <<0, 0, 1, 0, 0, 0, 0, 0, 5>>),
     Field("dec", <<>>, U64_MAX), Field("dec", <<>>, POW_2_64),
     Field("plus", <<"+">>, Small(5)),
     NotANumber(<<"0", "x", "5">>), NotANumber(<<>>)}

SubFields ==
    {Field("dec", <<>>, Small(32)), Field("dec", <<>>, <<0, 0, 0, 0, 0>> \o U32_MAX),
     Field("dec", <<>>, POW_2_32), Field("plus", <<"+">>, Small(32)),
     NotANumber(<<"3", "a">>), NotANumber(<<>>)}

TailFields == {Field("dec", <<>>, Small(544)), NotANumber(<<>>)}

RECURSIVE Tails(_)
Tails(n) ==
    IF n = 0 THEN {<<>>}
    ELSE Tails(n - 1) \cup {Append(t, f) : t \in {u \in Tails(n - 1) : Len(u) = n - 1},
                                          f \in TailFields}

\* the field lists: every prefix of revision, authority, sub-authority and
\* tail, and well-formed lists of 15 and 16 sub-authorities
FieldLists ==
    {<<>>}
    \cup {<<r>> : r \in RevFields}
    \cup {<<r, a>> : r \in RevFields, a \in AuthFields}
    \cup {<<r, a, b>> \o t : r \in RevFields, a \in AuthFields, b \in SubFields,
                             t \in Tails(MaxTailLen)}
    \cup {<<Field("dec", <<>>, Small(1)), Field("dec", <<>>, Small(5))>>
            \o [i \in 1..n |-> Field("dec", <<>>, Small(32 * i))] :
          n \in {MAX_SUBAUTHORITY_COUNT, MAX_SUBAUTHORITY_COUNT + 1}}

RECURSIVE JoinFields(_)
JoinFields(fields) ==
    IF fields = <<>> THEN <<>>
    ELSE <<"-">> \o Head(fields).text \o JoinFields(Tail(fields))

InitParse ==
    /\ Idle
    /\ inp \in {[tag |-> "text", head |-> h, fields |-> fs,
                  text |-> h \o JoinFields(fs)] :
                    h \in ParseHeads, fs \in FieldLists}
    /\ out = NoIO

ParseText ==
    /\ inp.tag = "text" /\ out = NoIO
    /\ out' = [tag |-> "parsed", c |-> SidComponents_from_str(inp.text)]
    /\ UNCHANGED <<heap, slots, res, fault, inp>>

NextParse == ParseText

SpecParse == InitParse /\ [][NextParse]_vars

\* a field that is a number of at most `width` bytes written in one of the
\* given ways: digits only ("dec"), digits after a '+' ("plus")
NumberField(f, width, kinds) == f.kind \in kinds /\ IsZero(Take(f.val, 9 - width))

\* the language: S or s, a revision equal to 1, an authority that fits a u64
\* and 1 to 15 sub-authorities that fit a u32, every number written in one
\* of the given ways
InLanguage(t, kinds) ==
    /\ t.head \in {<<"S">>, <<"s">>}
    /\ Len(t.fields) - 2 \in 1..15
    /\ NumberField(t.fields[1], 1, kinds) /\ t.fields[1].val = Small(1)
    /\ NumberField(t.fields[2], 8, kinds)
    /\ \A i \in 3..Len(t.fields) : NumberField(t.fields[i], 4, kinds)

\* C19: parsing succeeds exactly on the texts made of S or s, a decimal u8
\* revision equal to 1, a decimal u64 authority and 1 to 15 decimal u32
\* sub-authorities, joined by '-'; every other text is InvalidSidFormat.
C19_ParserLanguage ==
    out.tag = "parsed" => out.c.ok = InLanguage(inp, {"dec"})

\* a text with a sub-authority field "+32" was parsed into a value
C19_Witness ==
    /\ out.tag = "parsed" /\ out.c.ok
    /\ inp.text = <<"S", "-", "1", "-", "5", "-", "+", "3", "2">>
    /\ out.c.sub_authority = <<U32(32)>>

\* C20: whenever the authority field is a decimal number v below 2^64, the
\* parsed identifier authority is the low six bytes of v's eight-byte
\* big-endian form, v mod 2^48, and whether the text is accepted does not
\* depend on v being below 2^48.
C20_AuthorityTruncation ==
    (/\ out.tag = "parsed"
     /\ Len(inp.fields) >= 2
     /\ NumberField(inp.fields[2], 8, {"dec"})) =>
        LET v == inp.fields[2].val
            five == [inp EXCEPT !.fields[2] = Field("dec", <<>>, Small(5))] IN
        /\ out.c.ok = InLanguage(five, {"dec", "plus"})
        /\ out.c.ok =>
              /\ Len(out.c.identifier_authority) = AUTHORITY_LEN
              /\ out.c.identifier_authority = SubSeq(v, 4, 9)

\* the authority 2^48 + 5 was accepted and parsed as 5
C20_Witness ==
    /\ out.tag = "parsed" /\ out.c.ok
    /\ inp.fields[2].val = <<0, 0, 1, 0, 0, 0, 0, 0, 5>>
    /\ out.c.identifier_authority = NT_AUTHORITY

-----------------------------------------------------------------------------
(* sid/windows/sid_lookup: SpecLookup runs SidLookupOperation::new and     *)
(* process against an operating system that answers LookupAccountSidW as   *)
(* it likes within its contract: a failed call leaves a nonzero last       *)
(* error, a successful call stores no more than the lengths it was given   *)

ERROR_INSUFFICIENT_BUFFER == 122
INLINE_CAPACITY == 256

\* the largest length the system reports
MaxLookupLen == 300
\* the OS calls counted; the count stays at this value once reached
MaxCalls == 3

\* impl From<NonZeroU32> for Error
Error_from(code) ==
    CASE code = 1337 -> [variant |-> "InvalidSid"]
      [] code = 87   -> [variant |-> "InvalidParameter"]
      [] code = 1332 -> [variant |-> "NoneMapped"]
      [] code = 5    -> [variant |-> "AccessDenied"]
      [] code = 53   -> [variant |-> "NetworkPathNotFound"]
      [] code = 1355 -> [variant |-> "NoSuchDomain"]
      [] code = 1788 -> [variant |-> "TrustedRelationshipFailure"]
      [] OTHER       -> [variant |-> "Other", code |-> code]

\* SmallVec::<[u16; 256]>::with_capacity(n).capacity()
with_capacity(n) == IF n > INLINE_CAPACITY THEN n ELSE INLINE_CAPACITY

\* the new of sid_lookup/sid_lookup_operation.rs, which goes on whenever the
\* probe did not fail with another error
SidLookupOperation_new_lenient(r) ==
    IF ~r.ok /\ r.code # ERROR_INSUFFICIENT_BUFFER THEN None
    ELSE Some([name_len |-> r.name_len, domain_len |-> r.domain_len,
               sid_type_raw |-> r.sid_type_raw])

\* SidLookupOperation::new on the answer r to the probe with null buffers
SidLookupOperation_new(r) ==
    IF r.ok THEN None
    ELSE IF Error_from(r.code) # [variant |-> "Other", code |-> ERROR_INSUFFICIENT_BUFFER]
    THEN None
    ELSE Some([name_len |-> r.name_len, domain_len |-> r.domain_len,
               sid_type_raw |-> r.sid_type_raw])

\* the process_call of sid_lookup/sid_lookup_operation.rs, which sizes the
\* domain buffer by the name length
process_call_by_name_len(op) ==
    [name_capacity |-> with_capacity(op.name_len), name_len |-> op.name_len,
     domain_capacity |-> with_capacity(op.name_len), domain_len |-> op.domain_len]

\* the buffers process hands to LookupAccountSidW and the lengths it passes
process_call(op) ==
    [name_capacity |-> with_capacity(op.name_len), name_len |-> op.name_len,
     domain_capacity |-> with_capacity(op.domain_len), domain_len |-> op.domain_len]

\* the process of sid_lookup/sid_lookup_operation.rs, which panics on an
\* error other than ERROR_INSUFFICIENT_BUFFER
process_panicking(op, r) ==
    IF ~r.ok /\ r.code = ERROR_INSUFFICIENT_BUFFER THEN [kind |-> "again"]
    ELSE IF ~r.ok THEN [kind |-> "panic"]
    ELSE [kind |-> "ok", name |-> r.name_len, domain |-> r.domain_len,
          sid_type_raw |-> r.sid_type_raw]

\* SidLookupOperation::process after the answer r to its call: call itself
\* again, return the error, or set_len both buffers and return the names
\* (held here by their lengths) and the raw type
process(op, r) ==
    LET result == IF r.ok THEN None ELSE Some(Error_from(r.code)) IN
    IF result = Some([variant |-> "Other", code |-> ERROR_INSUFFICIENT_BUFFER])
    THEN [kind |-> "again"]
    ELSE IF result.some THEN [kind |-> "err", err |-> result.val]
    ELSE [kind |-> "ok", name |-> r.name_len, domain |-> r.domain_len,
          sid_type_raw |-> r.sid_type_raw]

LookupLens == {0, 1, INLINE_CAPACITY, INLINE_CAPACITY + 1, MaxLookupLen}
OsCodes == {1, 5, 53, 87, ERROR_INSUFFICIENT_BUFFER, 1332, 1337, 1355, 1788}
RawTypes == {1, 5}

\* what LookupAccountSidW can answer: success with the lengths stored and the
\* type, ERROR_INSUFFICIENT_BUFFER with the lengths wanted, or another error,
\* which stores nothing
Answers ==
    {[ok |-> k, code |-> IF k THEN 0 ELSE ERROR_INSUFFICIENT_BUFFER, name_len |-> a,
      domain_len |-> b, sid_type_raw |-> t] :
        k \in BOOLEAN, a \in LookupLens, b \in LookupLens, t \in RawTypes}
    \cup {[ok |-> FALSE, code |-> c, name_len |-> 0, domain_len |-> 0,
           sid_type_raw |-> 0] : c \in OsCodes \ {ERROR_INSUFFICIENT_BUFFER}}

InitLookup ==
    /\ Idle
    /\ inp = [tag |-> "lookup", phase |-> "start"]
    /\ out = NoIO

\* Sid::lookup_impl, first half: SidLookupOperation::new
LookupNew(r) ==
    /\ inp.tag = "lookup" /\ inp.phase = "start"
    /\ r.ok => r.name_len = 0 /\ r.domain_len = 0
    /\ LET op == SidLookupOperation_new(r) IN
       /\ inp' = IF op.some
                 THEN [tag |-> "lookup", phase |-> "process", op |-> op.val,
                       answer |-> r, calls |-> 1]
                 ELSE [tag |-> "lookup", phase |-> "done", answer |-> r, calls |-> 1]
       /\ out' = [tag |-> "new", is_known |-> op.some]
    /\ UNCHANGED <<heap, slots, res, fault>>

\* Sid::lookup_impl, second half: one call of process, which ends the
\* lookup or calls process again with what the system stored
LookupProcess(r) ==
    /\ inp.tag = "lookup" /\ inp.phase = "process"
    /\ r.ok => r.name_len <= inp.op.name_len /\ r.domain_len <= inp.op.domain_len
    /\ LET call == process_call(inp.op)
           p == process(inp.op, r)
           calls == IF inp.calls < MaxCalls THEN inp.calls + 1 ELSE MaxCalls IN
       IF p.kind = "again"
       THEN /\ inp' = [tag |-> "lookup", phase |-> "process",
                       op |-> [name_len |-> r.name_len, domain_len |-> r.domain_len,
                               sid_type_raw |-> r.sid_type_raw],
                       answer |-> r, calls |-> calls]
            /\ out' = [tag |-> "again", call |-> call]
       ELSE /\ inp' = [tag |-> "lookup", phase |-> "done", answer |-> r,
                       calls |-> calls]
            /\ out' = [tag |-> "process", call |-> call, result |-> p]
    /\ UNCHANGED <<heap, slots, res, fault>>

NextLookup ==
    \/ \E r \in Answers : LookupNew(r)
    \/ \E r \in Answers : LookupProcess(r)

SpecLookup == InitLookup /\ [][NextLookup]_vars

\* the lookup goes on as long as it has a call to make
SpecLookupFair == SpecLookup /\ WF_vars(NextLookup)

(* C23: process is one-shot and returns after a bounded number of calls of  *)
(* LookupAccountSidW whatever the system answers, ERROR_INSUFFICIENT_BUFFER *)
(* again and again included. process calls itself on every such answer, so  *)
(* a system that keeps giving it never lets the lookup end                   *)
C23_ProcessReturns == <>(inp.phase = "done")

\* process is about to make yet another call although the buffers of its
\* last call were as long as the system had asked
C23_Witness ==
    /\ inp.phase = "process" /\ inp.calls = MaxCalls /\ out.tag = "again"
    /\ out.call.name_len >= inp.answer.name_len
    /\ out.call.domain_len >= inp.answer.domain_len

(* C24: new returns Some, carrying the lengths the system reported, exactly *)
(* when the probe fails with ERROR_INSUFFICIENT_BUFFER; when the probe      *)
(* succeeds or fails with another code it returns None, the SID is not      *)
(* known and no lookup is made                                              *)
C24_LookupProbe ==
    out.tag = "new" =>
        /\ out.is_known = (~inp.answer.ok /\ inp.answer.code = ERROR_INSUFFICIENT_BUFFER)
        /\ out.is_known =>
               /\ inp.phase = "process"
               /\ inp.op.name_len = inp.answer.name_len
               /\ inp.op.domain_len = inp.answer.domain_len
        /\ ~out.is_known => inp.phase = "done"

C24_Witness ==
    /\ out.tag = "new" /\ out.is_known
    /\ inp.op.domain_len > inp.op.name_len /\ inp.op.domain_len > INLINE_CAPACITY

(* C25: process returns the names and the raw type when its call succeeds,  *)
(* tries again with the lengths the system stored when the call fails with  *)
(* ERROR_INSUFFICIENT_BUFFER, and returns any other code as the Error it    *)
(* maps to; it never panics                                                 *)
C25_ErrorPropagation ==
    LET r == inp.answer
        named == [InvalidSid |-> 1337, InvalidParameter |-> 87, NoneMapped |-> 1332,
                  AccessDenied |-> 5, NetworkPathNotFound |-> 53,
                  NoSuchDomain |-> 1355, TrustedRelationshipFailure |-> 1788] IN
    /\ out.tag = "again" =>
           /\ ~r.ok /\ r.code = ERROR_INSUFFICIENT_BUFFER
           /\ inp.phase = "process"
           /\ inp.op.name_len = r.name_len /\ inp.op.domain_len = r.domain_len
    /\ out.tag = "process" =>
           /\ out.result.kind \in {"ok", "err"}
           /\ out.result.kind = "ok" <=> r.ok
           /\ r.ok => /\ out.result.name = r.name_len
                       /\ out.result.domain = r.domain_len
                       /\ out.result.sid_type_raw = r.sid_type_raw
           /\ ~r.ok => /\ r.code # ERROR_INSUFFICIENT_BUFFER
                        /\ IF out.result.err.variant = "Other"
                           THEN /\ out.result.err.code = r.code
                                /\ \A v \in DOMAIN named : named[v] # r.code
                           ELSE named[out.result.err.variant] = r.code

\* the second call of process fails with ERROR_NONE_MAPPED
C25_Witness ==
    /\ out.tag = "process" /\ inp.calls = MaxCalls
    /\ out.result = [kind |-> "err", err |-> [variant |-> "NoneMapped"]]

(* C26: in every call process makes, each buffer holds at least the length  *)
(* passed for it, and the lengths given to set_len afterwards do not exceed *)
(* the capacities, whatever pair of lengths the probe reported              *)
C26_BufferSafety ==
    out.tag \in {"again", "process"} =>
        /\ out.call.name_capacity >= out.call.name_len
        /\ out.call.domain_capacity >= out.call.domain_len
        /\ (out.tag = "process" /\ out.result.kind = "ok") =>
               /\ out.result.name <= out.call.name_capacity
               /\ out.result.domain <= out.call.domain_capacity

\* a domain longer than the name and than the inline capacity
C26_Witness ==
    /\ out.tag = "process" /\ out.result.kind = "ok"
    /\ out.call.domain_len > out.call.name_len
    /\ out.result.domain > INLINE_CAPACITY
    /\ out.result.domain > out.call.name_len

-----------------------------------------------------------------------------
(* ext/windows/get_current_sid.rs: SpecToken runs get_current_user_sid     *)
(* against a system that answers each call as it likes; calls is the list  *)
(* of the calls made so far                                                *)

\* size_of::<TOKEN_USER>() where a pointer has eight bytes
TOKEN_USER_SIZE == 16

\* the last errors a failing token call leaves
TokenCodes == {5, ERROR_INSUFFICIENT_BUFFER}

\* the bytes GetTokenInformation(TokenUser) needs for the user's SID
TokenUserSize(user) == TOKEN_USER_SIZE + Len(as_binary(user))

\* the sizes the size query reports
TokenSizes == {0} \cup {TokenUserSize(Identifier(NT_AUTHORITY, subs)) : subs \in TextSubs}

InitToken ==
    /\ Idle
    /\ inp \in {[tag |-> "token", phase |-> "start", calls |-> <<>>, size |-> 0,
                 user |-> Identifier(a, subs)] : a \in TextAuths, subs \in TextSubs}
    /\ out = NoIO

\* an entry of calls: the call, the buffer length passed, the answer
Called(call, len, ok, err) == [call |-> call, len |-> len, ok |-> ok, err |-> err]

\* an OpenToken that goes on to the queries whatever the answer
OpenToken_going_on(open_ok, err) ==
    /\ inp.tag = "token" /\ inp.phase = "start"
    /\ inp' = [inp EXCEPT !.phase = "opened",
                          !.calls = Append(@, Called("OpenProcessToken", 0, open_ok, err))]
    /\ UNCHANGED <<heap, slots, res, fault, out>>

\* OpenProcessToken(GetCurrentProcess(), TOKEN_QUERY, ..) and the return on
\* its failure
OpenToken(open_ok, err) ==
    /\ inp.tag = "token" /\ inp.phase = "start"
    /\ inp' = [inp EXCEPT !.phase = IF open_ok THEN "opened" ELSE "done",
                          !.calls = Append(@, Called("OpenProcessToken", 0, open_ok, err))]
    /\ IF open_ok
       THEN UNCHANGED out
       ELSE out' = [tag |-> "returned",
                    result |-> [variant |-> "OpenTokenFailed", code |-> err]]
    /\ UNCHANGED <<heap, slots, res, fault>>

\* GetTokenInformation(token, TokenUser, null, 0, &mut size) and the return
\* when it succeeds
SizeQuery(first_ok, err, size) ==
    /\ inp.tag = "token" /\ inp.phase = "opened"
    /\ inp' = [inp EXCEPT !.phase = IF first_ok THEN "done" ELSE "sized",
                          !.size = IF first_ok THEN 0 ELSE size,
                          !.calls = Append(@, Called("GetTokenInformation", 0, first_ok, err))]
    /\ IF first_ok
       THEN out' = [tag |-> "returned", result |-> [variant |-> "GetTokenSizeFailed"]]
       ELSE UNCHANGED out
    /\ UNCHANGED <<heap, slots, res, fault>>

\* vec![0u8; size], GetTokenInformation(token, TokenUser, buffer, size, ..)
\* and the return: the error, or sid.to_owned() of the SID the buffer names.
\* The system succeeds only on a buffer long enough
FillQuery(second_ok, err, a, g) ==
    LET r == to_owned(heap, a, g, inp.user) IN
    /\ inp.tag = "token" /\ inp.phase = "sized"
    /\ second_ok => inp.size >= TokenUserSize(inp.user)
    /\ inp' = [inp EXCEPT !.phase = "done",
                          !.calls = Append(@, Called("GetTokenInformation", inp.size,
                                                     second_ok, err))]
    /\ IF second_ok
       THEN /\ heap' = r.heap
            /\ out' = [tag |-> "returned",
                       result |-> [variant |-> "Ok", outcome |-> r.outcome, sid |-> r.val]]
       ELSE /\ out' = [tag |-> "returned",
                       result |-> [variant |-> "GetTokenInfoFailed", code |-> err]]
            /\ UNCHANGED heap
    /\ UNCHANGED <<slots, res, fault>>

NextToken ==
    \/ \E open_ok \in BOOLEAN, err \in TokenCodes : OpenToken(open_ok, err)
    \/ \E first_ok \in BOOLEAN, err \in TokenCodes, size \in TokenSizes :
          SizeQuery(first_ok, err, size)
    \/ \E second_ok \in BOOLEAN, err \in TokenCodes, a \in Addrs, g \in Garbage :
          FillQuery(second_ok, err, a, g)

SpecToken == InitToken /\ [][NextToken]_vars

(* C27: get_current_user_sid calls OpenProcessToken, then the size query   *)
(* with an empty buffer, then the fill query with a buffer of the reported *)
(* size, each at most once; it returns OpenTokenFailed(code) with no       *)
(* further call when opening fails, GetTokenSizeFailed when the size query *)
(* succeeds, GetTokenInfoFailed(code) when the fill query fails, and an    *)
(* owned copy of the SID found only when the fill query succeeds           *)
C27_TokenProtocol ==
    LET calls == inp.calls
        n == Len(calls)
        protocol == <<"OpenProcessToken", "GetTokenInformation", "GetTokenInformation">>
        returns == IF ~calls[n].ok
                   THEN n \in {1, 3}
                   ELSE n \in {2, 3} IN
    inp.tag = "token" =>
        /\ n <= Len(protocol)
        /\ \A i \in 1..n : calls[i].call = protocol[i]
        /\ \A i \in 1..n : calls[i].len = IF i = 3 THEN inp.size ELSE 0
        /\ (out # NoIO) = (n > 0 /\ returns)
        /\ out # NoIO =>
              CASE n = 1 -> out.result = [variant |-> "OpenTokenFailed",
                                          code |-> calls[1].err]
                [] n = 2 -> out.result = [variant |-> "GetTokenSizeFailed"]
                [] n = 3 /\ ~calls[3].ok ->
                     out.result = [variant |-> "GetTokenInfoFailed", code |-> calls[3].err]
                [] OTHER ->
                     /\ out.result.variant = "Ok" /\ out.result.outcome = "ok"
                     /\ out.result.sid.kind = "heap"
                     /\ heap[out.result.sid.ptr].live
                     /\ as_binary(SecAsSid(heap, out.result.sid)) = as_binary(inp.user)

\* the three calls were made and the current user's SID, with fifteen
\* sub-authorities, came back
C27_Witness ==
    /\ inp.tag = "token" /\ out # NoIO /\ out.result.variant = "Ok"
    /\ Len(inp.calls) = 3
    /\ sub_authority_count(inp.user) = MAX_SUBAUTHORITY_COUNT

-----------------------------------------------------------------------------
(* security_identifier/maybe_uninit.rs: SpecUninit allocates through        *)
(* MaybeUninitSecurityIdentifier and lets each value go out of scope, the   *)
(* helper or the SecurityIdentifier { inner: Box<Sid> } made from it        *)

\* MaybeUninitSecurityIdentifier::alloc
MaybeUninit_alloc(h, a, g, size_info) ==
    LET layout == get_layout(size_info) IN
    [heap |-> Alloc(h, a, layout, g),
     val |-> [kind |-> "uninit", ptr |-> a, meta |-> get_sub_authority_count(size_info),
              layout |-> layout, init |-> FALSE]]

\* an assume_init without ManuallyDrop: the helper's Drop runs on return
assume_init_dropping(h, v) ==
    [heap |-> Dealloc(h, v.ptr), val |-> [kind |-> "box", ptr |-> v.ptr, meta |-> v.meta]]

\* MaybeUninitSecurityIdentifier::assume_init: the helper is wrapped in
\* ManuallyDrop and the pointer goes into a Box
assume_init(h, v) ==
    [heap |-> h, val |-> [kind |-> "box", ptr |-> v.ptr, meta |-> v.meta]]

\* Layout::for_value(&*inner), with which Box<Sid> frees
for_value(h, v) == [size |-> size_of_val(SecAsSid(h, v)), align |-> U32_SIZE]

InitUninit ==
    /\ Idle
    /\ inp = [tag |-> "uninit"]
    /\ out = NoIO

\* let mut u = MaybeUninitSecurityIdentifier::alloc(from_count(n))
UninitAlloc(d, a, g, n) ==
    LET r == MaybeUninit_alloc(heap, a, g, from_count(n).val) IN
    /\ inp.tag = "uninit" /\ Running /\ Empty(d) /\ ~heap[a].live
    /\ heap' = r.heap
    /\ slots' = [slots EXCEPT ![d] = r.val]
    /\ res' = Result("alloc", "uninit", d, d, "ok", TRUE)
    /\ UNCHANGED <<fault, inp, out>>

\* the caller writes a whole identifier through u.as_mut_ptr()
UninitWrite(d, auth) ==
    /\ inp.tag = "uninit" /\ Running /\ slots[d].kind = "uninit"
    /\ heap' = [heap EXCEPT ![slots[d].ptr].mem =
                    WriteAt(@, 0, as_binary(Identifier(auth, Ramp(slots[d].meta))))]
    /\ slots' = [slots EXCEPT ![d].init = TRUE]
    /\ res' = Result("write", "uninit", d, d, "ok", FALSE)
    /\ UNCHANGED <<fault, inp, out>>

\* let sid = unsafe { u.assume_init() }, after the identifier was written
AssumeInit(d) ==
    LET r == assume_init(heap, slots[d]) IN
    /\ inp.tag = "uninit" /\ Running /\ slots[d].kind = "uninit" /\ slots[d].init
    /\ heap' = r.heap
    /\ slots' = [slots EXCEPT ![d] = r.val]
    /\ res' = Result("assume_init", "box", d, d, "ok", FALSE)
    /\ UNCHANGED <<fault, inp, out>>

\* the helper goes out of scope: impl Drop for MaybeUninitSecurityIdentifier
DropUninit(d) ==
    /\ inp.tag = "uninit" /\ Running /\ slots[d].kind = "uninit"
    /\ IF DeallocOk(heap, slots[d].ptr, slots[d].layout)
       THEN heap' = Dealloc(heap, slots[d].ptr) /\ UNCHANGED fault
       ELSE fault' = "bad_dealloc" /\ UNCHANGED heap
    /\ slots' = [slots EXCEPT ![d] = NoValue]
    /\ res' = Result("drop", "uninit", d, d, "ok", FALSE)
    /\ UNCHANGED <<inp, out>>

\* the SecurityIdentifier goes out of scope: its Box<Sid> frees
DropBox(d) ==
    /\ inp.tag = "uninit" /\ Running /\ slots[d].kind = "box"
    /\ IF DeallocOk(heap, slots[d].ptr, for_value(heap, slots[d]))
       THEN heap' = Dealloc(heap, slots[d].ptr) /\ UNCHANGED fault
       ELSE fault' = "bad_dealloc" /\ UNCHANGED heap
    /\ slots' = [slots EXCEPT ![d] = NoValue]
    /\ res' = Result("drop", "box", d, d, "ok", FALSE)
    /\ UNCHANGED <<inp, out>>

NextUninit ==
    \/ \E d \in Slots, a \in Addrs, g \in Garbage, n \in ValidLens : UninitAlloc(d, a, g, n)
    \/ \E d \in Slots, auth \in {NT_AUTHORITY, WIDE_AUTHORITY} : UninitWrite(d, auth)
    \/ \E d \in Slots : AssumeInit(d)
    \/ \E d \in Slots : DropUninit(d)
    \/ \E d \in Slots : DropBox(d)

SpecUninit == InitUninit /\ [][NextUninit]_vars

(* C28: every allocation made by MaybeUninitSecurityIdentifier::alloc is    *)
(* freed exactly once, with the layout it was made with: by the helper's    *)
(* Drop when assume_init was not called, else only by the SecurityIdentifier*)
(* assume_init returned. At every moment each live allocation has exactly   *)
(* one owner, which will free it with the allocation's layout; an           *)
(* allocation that was freed has none; no free was ever unsound             *)
C28_AllocationHandoff ==
    inp.tag = "uninit" =>
        /\ fault = "none"
        /\ \A a \in Addrs :
              LET owners == {d \in Slots : ~Empty(d) /\ slots[d].ptr = a} IN
              /\ Cardinality(owners) = IF heap[a].live THEN 1 ELSE 0
              /\ \A d \in owners :
                    heap[a].layout = IF slots[d].kind = "uninit"
                                     THEN slots[d].layout
                                     ELSE for_value(heap, slots[d])

\* a SecurityIdentifier made by assume_init has gone out of scope, and nothing
\* is allocated any more
C28_Witness ==
    /\ inp.tag = "uninit" /\ fault = "none"
    /\ res.op = "drop" /\ res.kind = "box"
    /\ \A a \in Addrs : ~heap[a].live

-----------------------------------------------------------------------------
(* sid_type.rs: SpecType converts raw SID_NAME_USE values to SidType and    *)
(* back                                                                     *)

\* the raw values tried go from -MaxRawType to MaxRawType, beside the ends of i32
MaxRawType == 40

I32_MAX == 2147483647

\* enum SidType with its #[repr(i32)] discriminants
SidType ==
    [User |-> 1, Domain |-> 3, Alias |-> 4, WellKnownGroup |-> 5, DeletedAccount |-> 6,
     Invalid |-> 7, Unknown |-> 8, Computer |-> 9, Label |-> 10, LogonSession |-> 11]

\* #[derive(TryFromPrimitive)]: the variant with that discriminant
SidType_try_from(raw) ==
    IF \E v \in DOMAIN SidType : SidType[v] = raw
    THEN [ok |-> TRUE, val |-> CHOOSE v \in DOMAIN SidType : SidType[v] = raw]
    ELSE [ok |-> FALSE, number |-> raw]

\* #[derive(IntoPrimitive)]: i32::from(sid_type)
SidType_into(v) == SidType[v]

\* SidLookupResult::sid_type
sid_type(lookup) == SidType_try_from(lookup.sid_type_raw)

InitType ==
    /\ Idle
    /\ inp \in {[tag |-> "raw", raw |-> r] :
                  r \in (-MaxRawType..MaxRawType) \cup {-I32_MAX - 1, I32_MAX}}
    /\ out = NoIO

\* SidType::try_from(raw), and i32::from of the variant found
TryFromRaw ==
    LET r == SidType_try_from(inp.raw) IN
    /\ inp.tag = "raw" /\ out = NoIO
    /\ out' = [tag |-> "type", by |-> "try_from", result |-> r,
               back |-> IF r.ok THEN Some(SidType_into(r.val)) ELSE None]
    /\ UNCHANGED <<heap, slots, res, fault, inp>>

\* sid_type() of a lookup result that carries raw, and i32::from of the
\* variant found
LookupSidType ==
    LET r == sid_type([sid_type_raw |-> inp.raw]) IN
    /\ inp.tag = "raw" /\ out = NoIO
    /\ out' = [tag |-> "type", by |-> "sid_type", result |-> r,
               back |-> IF r.ok THEN Some(SidType_into(r.val)) ELSE None]
    /\ UNCHANGED <<heap, slots, res, fault, inp>>

NextType == TryFromRaw \/ LookupSidType

SpecType == InitType /\ [][NextType]_vars

(* C29: for every raw value 1..=11 (User, Group, Domain, Alias,             *)
(* WellKnownGroup, DeletedAccount, Invalid, Unknown, Computer, Label,       *)
(* LogonSession) SidType::try_from(raw) and the lookup result's sid_type()  *)
(* succeed with that variant and converting back gives raw; every other raw *)
(* value is an error. The enum has no variant for 2                         *)
C29_SidTypeMirror ==
    LET SID_NAME_USE == <<"User", "Group", "Domain", "Alias", "WellKnownGroup",
                          "DeletedAccount", "Invalid", "Unknown", "Computer", "Label",
                          "LogonSession">> IN
    out.tag = "type" =>
        IF inp.raw \in 1..Len(SID_NAME_USE)
        THEN /\ out.result.ok
             /\ out.result.val = SID_NAME_USE[inp.raw]
             /\ out.back = Some(inp.raw)
        ELSE ~out.result.ok

\* the raw value of SidTypeGroup was converted and refused
C29_Witness ==
    /\ out.tag = "type" /\ out.by = "sid_type"
    /\ inp.raw = 2 /\ ~out.result.ok

-----------------------------------------------------------------------------
(* sid/windows/sid_lookup/domain_and_name.rs: SpecName parses texts as      *)
(* DOMAIN\Name with the default policy and formats what it parsed. A text  *)
(* is a sequence of characters; "NUL" stands for U+0000                     *)

\* the longest text parsed
MaxNameLen == 4

\* ParsePolicy::DEFAULT
ParsePolicy_DEFAULT ==
    [allow_empty_domain |-> TRUE, allow_empty_name |-> FALSE,
     max_component_len |-> None, forbidden_ascii |-> {"\\", "NUL"}]

\* s.splitn(3, '\\'), collected
splitn_3(s) ==
    LET seps == {i \in 1..Len(s) : s[i] = "\\"}
        first == CHOOSE i \in seps : \A j \in seps : i <= j
        later == seps \ {first}
        second == CHOOSE i \in later : \A j \in later : i <= j
    IN IF seps = {} THEN <<s>>
       ELSE IF later = {}
       THEN <<SubSeq(s, 1, first - 1), SubSeq(s, first + 1, Len(s))>>
       ELSE <<SubSeq(s, 1, first - 1), SubSeq(s, first + 1, second - 1),
              SubSeq(s, second + 1, Len(s))>>

\* ParsePolicy::validate_component with platform_len and
\* platform_forbidden_check; Ok(()) is [ok |-> TRUE]
validate_component(policy, which, s) ==
    LET bad == {i \in 1..Len(s) : s[i] = "NUL" \/ s[i] \in policy.forbidden_ascii} IN
    IF s = <<>>
    THEN IF which = "Domain"
         THEN IF policy.allow_empty_domain THEN [ok |-> TRUE]
              ELSE [ok |-> FALSE, err |-> [variant |-> "EmptyDomain"]]
         ELSE IF policy.allow_empty_name THEN [ok |-> TRUE]
              ELSE [ok |-> FALSE, err |-> [variant |-> "EmptyName"]]
    ELSE IF policy.max_component_len.some /\ Len(s) > policy.max_component_len.val
    THEN [ok |-> FALSE, err |-> [variant |-> "ComponentTooLong", which |-> which,
                                 max |-> policy.max_component_len.val, actual |-> Len(s)]]
    ELSE IF bad # {}
    THEN [ok |-> FALSE,
          err |-> [variant |-> "ForbiddenUnit", which |-> which, unit |-> s[CHOOSE i \in bad : \A j \in bad : i <= j],
                   index |-> (CHOOSE i \in bad : \A j \in bad : i <= j) - 1]]
    ELSE [ok |-> TRUE]

\* ParsePolicy::validate_pair
validate_pair(policy, domain, name) ==
    IF ~validate_component(policy, "Domain", domain).ok
    THEN validate_component(policy, "Domain", domain)
    ELSE validate_component(policy, "Name", name)

\* the from_str of src/src/domain_and_name.rs: one error for every failure,
\* and no validation of the parts
parse_without_policy(policy, s) ==
    LET parts == splitn_3(s) IN
    IF Len(parts) # 2 THEN [ok |-> FALSE, err |-> [variant |-> "DomainParsingError"]]
    ELSE [ok |-> TRUE, val |-> [domain |-> parts[1], name |-> parts[2]]]

\* DomainAndName::parse_with_policy
parse_with_policy(policy, s) ==
    LET parts == splitn_3(s) IN
    IF Len(parts) < 2 THEN [ok |-> FALSE, err |-> [variant |-> "MissingSeparator"]]
    ELSE IF Len(parts) > 2 THEN [ok |-> FALSE, err |-> [variant |-> "TooManySeparators"]]
    ELSE IF ~validate_pair(policy, parts[1], parts[2]).ok
    THEN validate_pair(policy, parts[1], parts[2])
    ELSE [ok |-> TRUE, val |-> [domain |-> parts[1], name |-> parts[2]]]

\* impl Display for DomainAndName
DomainAndName_Display(v) == v.domain \o <<"\\">> \o v.name

NameChars == {"D", "n", "\\", "NUL"}

InitName ==
    /\ Idle
    /\ inp \in {[tag |-> "text", text |-> t] :
                  t \in UNION {[1..n -> NameChars] : n \in 0..MaxNameLen}}
    /\ out = NoIO

\* s.parse::<DomainAndName>() and to_string() of the value parsed
NameFromStr ==
    LET r == parse_with_policy(ParsePolicy_DEFAULT, inp.text) IN
    /\ inp.tag = "text" /\ out = NoIO
    /\ out' = [tag |-> "name", result |-> r,
               shown |-> IF r.ok THEN Some(DomainAndName_Display(r.val)) ELSE None]
    /\ UNCHANGED <<heap, slots, res, fault, inp>>

NextName == NameFromStr

SpecName == InitName /\ [][NextName]_vars

(* C30: a text domain\name, the domain without backslash and NUL and       *)
(* possibly empty, the name without them and not empty, parses with the     *)
(* default policy into those two components and formats back to the text;   *)
(* a text without backslash fails with MissingSeparator, one with more than *)
(* one backslash with TooManySeparators                                     *)
C30_NameRoundTrip ==
    LET t == inp.text
        seps == {i \in 1..Len(t) : t[i] = "\\"}
        clean == \A i \in 1..Len(t) : t[i] # "NUL" IN
    out.tag = "name" =>
        /\ seps = {} => out.result = [ok |-> FALSE, err |-> [variant |-> "MissingSeparator"]]
        /\ Cardinality(seps) > 1 =>
               out.result = [ok |-> FALSE, err |-> [variant |-> "TooManySeparators"]]
        /\ \A i \in seps :
               (Cardinality(seps) = 1 /\ clean /\ i < Len(t)) =>
                   /\ out.result.ok
                   /\ out.result.val.domain = SubSeq(t, 1, i - 1)
                   /\ out.result.val.name = SubSeq(t, i + 1, Len(t))
                   /\ out.shown = Some(t)

\* \Dnn, with its empty domain, was parsed and formatted
C30_Witness ==
    /\ out.tag = "name" /\ out.result.ok
    /\ inp.text = <<"\\", "D", "n", "n">>
    /\ out.result.val = [domain |-> <<>>, name |-> <<"D", "n", "n">>]

====
